---- MODULE Spec2Model ----
(***************************************************************************)
(* Model of the BMS protocol codecs of Gobel-Battery-HA-Addon:             *)
(*   - the energy accumulator of JKBMS485 (jkbms_rs485.py),                *)
(*   - the Modbus RTU codec (jkbms_rs485.py, jkbms_modbus.py),             *)
(*   - the ASCII decoders of PACEBMS (pacebms.py),                         *)
(*   - the JKBMS485 poll cycle get_analog_data.                            *)
(* Each part has its own specification (SpecEnergy, SpecModbus, ...); the  *)
(* variables of the other parts stay at their initial values.              *)
(*                                                                         *)
(* Units.  Python floats are modelled by exact integers:                   *)
(*   power   in W   (power_kW * 1000),                                     *)
(*   time    in s,                                                         *)
(*   energy  in Ws  (Wh * 3600), so that |kW| * s * 1000 / 3600 Wh is the  *)
(*           integer |W| * s.                                              *)
(* An optional value (Python None) is <<>> and a present value v is <<v>>. *)
(***************************************************************************)
EXTENDS Integers, Sequences, FiniteSets, TLC

VARIABLES
    \* JKBMS485 energy accumulator (jkbms_rs485.py:22-24)
    total_energy_charged,      \* cumulative charged energy, Ws
    total_energy_discharged,   \* cumulative discharged energy, Ws
    last_energy_time,          \* <<>> (None) or <<t>>
    energy_call,               \* the last accumulator operation: inputs, pre-state, result
    energy_prev_call,          \* the operation before it
    n_calls,                   \* calculate_cumulative_energy calls made so far
    \* Modbus RTU codec of JKBMS485 / JKBMSModbus
    modbus_class,              \* "JKBMS485" or "JKBMSModbus": the class of the instance
    default_slave_address,     \* jkbms_rs485.py:32, jkbms_modbus.py:27
    modbus_call,               \* the last command-building call: arguments and return value
    response_origin,           \* how the response handed to the parser was made
    rx_response,               \* the response bytes handed to the parser
    parse_call,                \* the parser call made on the response and its return value
    \* ASCII decoders of PACEBMS
    ascii_origin,              \* how the ASCII response handed to the decoder was made
    ascii_response,            \* the response string, a sequence of characters
    ascii_call,                \* the decoder call made on it and its return value
    \* poll cycle of JKBMS485
    address_detected,          \* self.address_detected
    poll_call,                 \* the last get_analog_data call and its return value
    n_polls,                   \* number of poll cycles made so far
    \* ASCII request building and checksums of PACEBMS / TDTBMS232
    codec_call,                \* the call made: function, arguments and return value
    \* fleet aggregation of publish_analog_data_mqtt
    fleet_call,                \* the last aggregation: family, packs and what it published
    \* requests and responses on the transport (bms_comm.send_data / receive_data)
    io_family,                 \* the BMS class that uses the transport, "none" before its first call
    publish_cycle,             \* the publish cycle of TDTBMS232: position in its retry loop
    io_call,                   \* the get / read call in progress and the last return value
    transport_log,             \* the send_data and receive_data calls made, in order
    \* loops that wait on the transport
    tcp_receive,               \* BMSComm._receive_tcp_modbus_response: position, attempt, all_data
    acquire                    \* the acquisition loop of the JKBMS485 publish functions

energy_vars == <<total_energy_charged, total_energy_discharged, last_energy_time,
                 energy_call, energy_prev_call, n_calls>>

modbus_vars == <<modbus_class, default_slave_address, modbus_call>>
parse_vars == <<response_origin, rx_response, parse_call>>

ascii_vars == <<ascii_origin, ascii_response, ascii_call>>

poll_vars == <<address_detected, poll_call, n_polls>>

codec_vars == <<codec_call>>

fleet_vars == <<fleet_call>>

io_vars == <<io_family, publish_cycle, io_call, transport_log>>

loop_vars == <<tcp_receive, acquire>>

vars == <<energy_vars, modbus_vars, parse_vars, ascii_vars, poll_vars, codec_vars,
          fleet_vars, io_vars, loop_vars>>

\* what the operations of each part leave alone
energy_frame == <<modbus_vars, parse_vars, ascii_vars, poll_vars, codec_vars, fleet_vars, io_vars,
                  loop_vars>>
modbus_frame == <<energy_vars, parse_vars, ascii_vars, poll_vars, codec_vars, fleet_vars, io_vars,
                  loop_vars>>
parse_frame == <<energy_vars, modbus_vars, ascii_vars, poll_vars, codec_vars, fleet_vars, io_vars,
                  loop_vars>>
ascii_frame == <<energy_vars, modbus_vars, parse_vars, poll_vars, codec_vars, fleet_vars, io_vars,
                  loop_vars>>
codec_frame == <<energy_vars, modbus_vars, parse_vars, ascii_vars, poll_vars, fleet_vars, io_vars,
                  loop_vars>>
fleet_frame == <<energy_vars, modbus_vars, parse_vars, ascii_vars, poll_vars, codec_vars, io_vars,
                 loop_vars>>
io_frame == <<energy_vars, modbus_vars, parse_vars, ascii_vars, poll_vars, codec_vars,
              fleet_vars, loop_vars>>
\* a poll cycle changes the accumulator and the slave address
poll_rest == <<modbus_class, modbus_call, parse_vars, ascii_vars, codec_vars,
               fleet_vars, io_vars>>
poll_frame == <<poll_rest, loop_vars>>
\* a loop that waits on the transport changes only its own position
tcp_frame == <<energy_vars, modbus_vars, parse_vars, ascii_vars, poll_vars, codec_vars,
               fleet_vars, io_vars, acquire>>

None == <<>>
Some(x) == <<x>>
Abs(x) == IF x < 0 THEN -x ELSE x

(***************************************************************************)
(* Bounds and input sets of the energy accumulator                         *)
(***************************************************************************)
MaxCalls == 3
\* values time.time() returns (s); the clock may stand still or step back
Times == {0, 100, 300, 400, 500, 3600}
\* current_power_kw in W: -1.0 kW, 0, 0.5 kW, 1.0 kW, or None
Powers == {Some(-1000), Some(0), Some(500), Some(1000), None}

WsPerWh == 3600
MaxInterval == 300

NoCall == [op |-> "none", power |-> None, now |-> None, prev_time |-> None,
           prev_charged |-> 0, prev_discharged |-> 0, ret |-> None]

(***************************************************************************)
(* calculate_cumulative_energy, jkbms_rs485.py:135-176                     *)
(***************************************************************************)
\* a variant without the upper limit
AbnormalIntervalNoUpperLimit(time_interval) == time_interval <= 0

\* a variant without the lower limit
AbnormalIntervalNoLowerLimit(time_interval) == time_interval > 300

\* line 159: time_interval <= 0 or time_interval > 300
AbnormalInterval(time_interval) == time_interval <= 0 \/ time_interval > MaxInterval

\* a variant without abs()
EnergyDeltaSigned(power_w, time_interval) == power_w * time_interval

\* line 166: energy_delta = abs(current_power_kw) * time_interval * 1000 / 3600 Wh.
\* With power_w = current_power_kw * 1000 and 1 Wh = 3600 Ws this is
\* abs(power_w) * time_interval Ws.
EnergyDelta(power_w, time_interval) == Abs(power_w) * time_interval

\* a variant that keeps the old timestamp when the interval is abnormal
StoredTimeSkippedOnAnomaly(current_time, old_time, time_interval) ==
    IF time_interval <= 0 \/ time_interval > 300 THEN Some(old_time) ELSE Some(current_time)

\* line 156: the timestamp stored by a call in the running state
StoredTime(current_time, old_time, time_interval) == Some(current_time)

\* lines 169-174: the counter a delta goes to
ChargesCounter(power_w) == power_w >= 0

EnergyInit ==
    /\ total_energy_charged = 0
    /\ total_energy_discharged = 0
    /\ last_energy_time = None
    /\ energy_call = NoCall
    /\ energy_prev_call = NoCall
    /\ n_calls = 0

\* the body of calculate_cumulative_energy, lines 146-176, with time.time()
\* returning current_time
CumulativeEnergyStep(power, current_time) ==
    /\ n_calls' = n_calls + 1
    /\ energy_prev_call' = energy_call
    /\ IF last_energy_time = None
       THEN \* lines 150-152: first call only stores the timestamp
            /\ last_energy_time' = Some(current_time)
            /\ UNCHANGED <<total_energy_charged, total_energy_discharged>>
       ELSE LET time_interval == current_time - last_energy_time[1]
            IN /\ last_energy_time' =
                      StoredTime(current_time, last_energy_time[1], time_interval)
               /\ IF AbnormalInterval(time_interval) \/ power = None
                  THEN UNCHANGED <<total_energy_charged, total_energy_discharged>>
                  ELSE IF ChargesCounter(power[1])
                       THEN /\ total_energy_charged' = total_energy_charged
                                     + EnergyDelta(power[1], time_interval)
                            /\ UNCHANGED total_energy_discharged
                       ELSE /\ total_energy_discharged' = total_energy_discharged
                                     + EnergyDelta(power[1], time_interval)
                            /\ UNCHANGED total_energy_charged
    /\ energy_call' = [op |-> "calc", power |-> power, now |-> Some(current_time),
                       prev_time |-> last_energy_time,
                       prev_charged |-> total_energy_charged,
                       prev_discharged |-> total_energy_discharged,
                       ret |-> <<total_energy_charged', total_energy_discharged'>>]

CalculateCumulativeEnergy(power, current_time) ==
    /\ n_calls < MaxCalls
    /\ CumulativeEnergyStep(power, current_time)
    /\ UNCHANGED energy_frame

(***************************************************************************)
(* reset_cumulative_energy, jkbms_rs485.py:178-186                         *)
(***************************************************************************)
\* a variant that forgets to clear the timestamp
ResetTimeKept == last_energy_time

\* line 185: self.last_energy_time = None
ResetTime == None

ResetCumulativeEnergy ==
    /\ total_energy_charged' = 0
    /\ total_energy_discharged' = 0
    /\ last_energy_time' = ResetTime
    /\ energy_prev_call' = energy_call
    /\ energy_call' = [op |-> "reset", power |-> None, now |-> None,
                       prev_time |-> last_energy_time,
                       prev_charged |-> total_energy_charged,
                       prev_discharged |-> total_energy_discharged,
                       ret |-> None]
    /\ UNCHANGED n_calls
    /\ UNCHANGED energy_frame

(***************************************************************************)
(* Modbus RTU codec: jkbms_rs485.py:112-133, 207-294 (class JKBMS485) and  *)
(* jkbms_modbus.py:61-229 (class JKBMSModbus).  The two classes hold the   *)
(* same code for CRC, command building and response parsing; they differ   *)
(* in the initial default_slave_address and the range of set_slave_address.*)
(* A byte string is a sequence of numbers 0..255; Python index i is i+1.   *)
(***************************************************************************)
MaxRegs == 3          \* registers in a generated response
MaxAlteredRegs == 1   \* registers in a response with a replaced byte
FUNCTION_CODE_READ_HOLDING_REGISTERS == 3
MinResponseLen == 5
CellVol0 == 4608      \* 0x1200
CellVol1 == 4610      \* 0x1202

Byte == 0..255

\* a ^ b on the low n bits
RECURSIVE XorBits(_, _, _)
XorBits(a, b, n) ==
    IF n = 0 THEN 0
    ELSE (((a % 2) + (b % 2)) % 2) + 2 * XorBits(a \div 2, b \div 2, n - 1)

\* x ^ 0xA001 for x < 0x8000: bits 15, 13 and 0 of 0xA001 are set
XorA001(x) ==
    LET b13 == IF (x \div 8192) % 2 = 1 THEN -8192 ELSE 8192
        b0  == IF x % 2 = 1 THEN -1 ELSE 1
    IN x + 32768 + b13 + b0

\* the shift without the polynomial
CrcStepWithoutPolynomial(crc) == crc \div 2

\* lines 127-131: if crc & 1: crc >>= 1; crc ^= 0xA001  else: crc >>= 1
CrcStep(crc) == IF crc % 2 = 1 THEN XorA001(crc \div 2) ELSE crc \div 2

\* line 126: for _ in range(8)
RECURSIVE CrcShift(_, _)
CrcShift(crc, k) == IF k = 0 THEN crc ELSE CrcStep(CrcShift(crc, k - 1))

\* line 125: crc ^= byte
XorLowByte(crc, byte) == ((crc \div 256) * 256) + XorBits(crc % 256, byte, 8)

\* lines 124-131 for the bytes data[lo..hi], from the seed: the bytes of the
\* first half, then those of the second.  (The test crc >= 0 always holds; it
\* makes TLC compute the CRC of the first half before it descends into the
\* second, which keeps the evaluation shallow.)
RECURSIVE CrcBytes(_, _, _, _)
CrcBytes(data, lo, hi, seed) ==
    IF lo > hi THEN seed
    ELSE IF lo = hi THEN CrcShift(XorLowByte(seed, data[lo]), 8)
    ELSE LET mid == (lo + hi) \div 2
             crc == CrcBytes(data, lo, mid, seed)
         IN IF crc >= 0 THEN CrcBytes(data, mid + 1, hi, crc) ELSE crc

\* calculate_crc16_modbus: seed 0xFFFF (line 122)
calculate_crc16_modbus(data) == CrcBytes(data, 1, Len(data), 65535)

\* struct.pack('>H', v) and struct.pack('<H', v)
PackBE16(v) == <<v \div 256, v % 256>>
\* a variant with the CRC bytes high byte first
PackLE16Swapped(v) == <<v \div 256, v % 256>>
PackLE16(v) == <<v % 256, v \div 256>>
\* struct.unpack('>H', b) and struct.unpack('<H', b)
\* a variant reading the registers low byte first
UnpackBE16LittleEndian(hi, lo) == lo * 256 + hi
UnpackBE16(hi, lo) == hi * 256 + lo
UnpackLE16(lo, hi) == hi * 256 + lo

\* data[a:b] of Python (0-based, end exclusive, clipped to the data)
Slice(data, a, b) ==
    LET e == IF b > Len(data) THEN Len(data) ELSE b
    IN IF a >= e THEN <<>> ELSE SubSeq(data, a + 1, e)

\* the value a codec call returns: ok is FALSE for None
Ret(ok, values, error) == [ok |-> ok, values |-> values, error |-> error]
RetNone(error) == Ret(FALSE, <<>>, error)

\* build_read_register_command: struct.pack('>BBHH', ...) + struct.pack('<H', crc)
CommandFrame(slave_address, register_address, register_count) ==
    <<slave_address, FUNCTION_CODE_READ_HOLDING_REGISTERS>>
        \o PackBE16(register_address) \o PackBE16(register_count)

\* lines 219-220: if slave_address is None: slave_address = self.default_slave_address
EffectiveSlaveAddress(slave_address) ==
    IF slave_address = None THEN default_slave_address ELSE slave_address[1]

build_read_register_command(register_address, register_count, slave_address) ==
    LET command_frame == CommandFrame(EffectiveSlaveAddress(slave_address),
                                      register_address, register_count)
    IN command_frame \o PackLE16(calculate_crc16_modbus(command_frame))

\* jkbms_modbus.py:116-136
build_read_cellvol1_command(slave_address) ==
    build_read_register_command(CellVol1, 1, slave_address)

\* jkbms_modbus.py:138-153
build_read_all_cell_voltages_command(cell_count, slave_address) ==
    build_read_register_command(CellVol0, cell_count, slave_address)

\* lines 276-279: for i in range(0, len(register_data), 2): if i+1 < len(...)
RECURSIVE RegisterValues(_, _)
RegisterValues(register_data, i) ==
    IF i >= Len(register_data) THEN <<>>
    ELSE IF i + 1 < Len(register_data)
         THEN <<UnpackBE16(register_data[i + 1], register_data[i + 2])>>
                  \o RegisterValues(register_data, i + 2)
         ELSE RegisterValues(register_data, i + 2)

\* lines 262-281, once the CRC has validated
ParseValidated(response) ==
    LET function_code == response[2]
        byte_count == response[3]
    IN IF function_code # FUNCTION_CODE_READ_HOLDING_REGISTERS
       THEN RetNone("function code mismatch")
       ELSE Ret(TRUE, RegisterValues(Slice(response, 3, 3 + byte_count), 0), "")

\* a variant that looks at the function code before the CRC
ParseChecksFunctionFirst(response) ==
    IF Len(response) < MinResponseLen THEN RetNone("length insufficient")
    ELSE IF response[2] # FUNCTION_CODE_READ_HOLDING_REGISTERS
         THEN RetNone("function code mismatch")
         ELSE IF UnpackLE16(response[Len(response) - 1], response[Len(response)])
                    # calculate_crc16_modbus(Slice(response, 0, Len(response) - 2))
              THEN RetNone("CRC check failed")
              ELSE ParseValidated(response)

\* parse_register_response, jkbms_rs485.py:239-281 = jkbms_modbus.py:155-197
parse_register_response(response) ==
    IF Len(response) < MinResponseLen THEN RetNone("length insufficient")
    ELSE LET data_without_crc == Slice(response, 0, Len(response) - 2)
             received_crc == UnpackLE16(response[Len(response) - 1], response[Len(response)])
             calculated_crc == calculate_crc16_modbus(data_without_crc)
         IN IF received_crc # calculated_crc
            THEN RetNone("CRC check failed")
            ELSE ParseValidated(response)

\* get_cellvol1_voltage_mv, jkbms_modbus.py:199-216
get_cellvol1_voltage_mv(response) ==
    LET register_values == parse_register_response(response)
    IN IF register_values.ok /\ Len(register_values.values) > 0
       THEN Ret(TRUE, <<register_values.values[1]>>, "")
       ELSE RetNone(register_values.error)

\* set_slave_address: 0..247 in JKBMS485 (line 290), 1..247 in JKBMSModbus (line 225)
AddressAccepted(class, address) ==
    IF class = "JKBMS485" THEN 0 <= address /\ address <= 247
    ELSE 1 <= address /\ address <= 247

\* __init__: default address 0x00 in JKBMS485, 0x01 in JKBMSModbus
InitialSlaveAddress(class) == IF class = "JKBMS485" THEN 0 ELSE 1

(***************************************************************************)
(* Responses handed to the parser.  A response is described by how it was  *)
(* made: a frame <<addr, fc, byte_count>> + registers + CRC16 (the mock    *)
(* response of test_jkbms.py:61-72), optionally with one byte replaced or  *)
(* cut to a prefix.                                                        *)
(***************************************************************************)
RegValues == {0, 3300, 65535}
RespAddresses == {1}
FunctionCodes == {3, 16, 131}       \* 0x03, 0x10, 0x83 (exception reply)

RECURSIVE RegisterBytes(_)
RegisterBytes(regs) ==
    IF regs = <<>> THEN <<>> ELSE PackBE16(Head(regs)) \o RegisterBytes(Tail(regs))

RegLists == UNION {[1..n -> RegValues] : n \in 0..MaxRegs}

\* test_jkbms.py:61-72: header, data, then the CRC low byte first
MockResponse(addr, fc, byte_count, regs) ==
    LET data_without_crc == <<addr, fc, byte_count>> \o RegisterBytes(regs)
        crc == calculate_crc16_modbus(data_without_crc)
    IN data_without_crc \o <<crc % 256, crc \div 256>>

ReplaceByte(data, pos, val) == [data EXCEPT ![pos] = val]

Origin(kind, addr, fc, byte_count, regs, pos, val) ==
    [kind |-> kind, addr |-> addr, fc |-> fc, byte_count |-> byte_count,
     regs |-> regs, pos |-> pos, val |-> val]
NoOrigin == Origin("none", 0, 0, 0, <<>>, 0, 0)

\* well-formed frames: function code 0x03, byteCount = 2n
ValidOrigins ==
    {Origin("valid", a, FUNCTION_CODE_READ_HOLDING_REGISTERS, 2 * Len(r), r, 0, 0) :
        a \in RespAddresses, r \in RegLists}
\* a well-formed frame with the byte at pos replaced by another value
Altered(o, p, v) == [o EXCEPT !.kind = "altered", !.pos = p, !.val = v]
\* a frame with a valid CRC whose byteCount c is not the payload length
Miscounted(o, c) == [o EXCEPT !.kind = "miscounted", !.byte_count = c]
\* a frame with a valid CRC and another function code
OtherFunction(o, f) == [o EXCEPT !.kind = "other function", !.fc = f]
\* a well-formed frame cut to its first p bytes
Truncated(o, p) == [o EXCEPT !.kind = "truncated", !.pos = p]

FrameLen(o) == Len(o.regs) * 2 + 5

ResponseOf(o) ==
    LET frame == MockResponse(o.addr, o.fc, o.byte_count, o.regs)
    IN CASE o.kind = "altered" -> ReplaceByte(frame, o.pos, o.val)
         [] o.kind = "truncated" -> SubSeq(frame, 1, o.pos)
         [] OTHER -> frame

RegisterAddresses == {CellVol0, CellVol1, 4752, 65535}     \* 4752 = 0x1290 BatVol
RegisterCounts == {1, 2, 16, 256}
SlaveArguments == {None, Some(0), Some(1), Some(247)}
SetAddressArguments == {0, 1, 2, 247, 248}

ModbusCall(op, register_address, register_count, slave_address, ret) ==
    [op |-> op, register_address |-> register_address,
     register_count |-> register_count, slave_address |-> slave_address, ret |-> ret]

ModbusInit ==
    /\ modbus_class \in {"JKBMS485", "JKBMSModbus"}
    /\ default_slave_address = InitialSlaveAddress(modbus_class)
    /\ modbus_call = ModbusCall("none", 0, 0, None, RetNone(""))

\* set_slave_address: raises ValueError and changes nothing outside the range
SetSlaveAddress(address) ==
    /\ IF AddressAccepted(modbus_class, address)
       THEN default_slave_address' = address
       ELSE UNCHANGED default_slave_address
    /\ modbus_call' = ModbusCall("set_slave_address", 0, 0, Some(address),
                          IF AddressAccepted(modbus_class, address)
                          THEN Ret(TRUE, <<>>, "") ELSE RetNone("ValueError"))
    /\ UNCHANGED <<modbus_class, modbus_frame>>

BuildReadRegisterCommand(register_address, register_count, slave_address) ==
    /\ modbus_call' = ModbusCall("build_read_register_command", register_address,
                          register_count, slave_address,
                          Ret(TRUE, build_read_register_command(register_address,
                                        register_count, slave_address), ""))
    /\ UNCHANGED <<modbus_class, default_slave_address, modbus_frame>>

BuildReadCellvol1Command(slave_address) ==
    /\ modbus_class = "JKBMSModbus"
    /\ modbus_call' = ModbusCall("build_read_cellvol1_command", 0, 0, slave_address,
                          Ret(TRUE, build_read_cellvol1_command(slave_address), ""))
    /\ UNCHANGED <<modbus_class, default_slave_address, modbus_frame>>

BuildReadAllCellVoltagesCommand(cell_count, slave_address) ==
    /\ modbus_class = "JKBMSModbus"
    /\ modbus_call' = ModbusCall("build_read_all_cell_voltages_command", 0, cell_count,
                          slave_address,
                          Ret(TRUE, build_read_all_cell_voltages_command(cell_count,
                                        slave_address), ""))
    /\ UNCHANGED <<modbus_class, default_slave_address, modbus_frame>>

ModbusNext ==
    \/ \E a \in SetAddressArguments : SetSlaveAddress(a)
    \/ \E ra \in RegisterAddresses, rc \in RegisterCounts, sa \in SlaveArguments :
          BuildReadRegisterCommand(ra, rc, sa)
    \/ \E sa \in SlaveArguments : BuildReadCellvol1Command(sa)
    \/ \E rc \in RegisterCounts, sa \in SlaveArguments :
          BuildReadAllCellVoltagesCommand(rc, sa)

(***************************************************************************)
(* The parser applied to one response.  The response is an input: it is    *)
(* drawn when the behaviour starts, and one parser call is made on it.     *)
(***************************************************************************)
ParseCall(op, ret) == [op |-> op, ret |-> ret]

\* no response received
ParseIdle ==
    /\ response_origin = NoOrigin
    /\ rx_response = <<>>
    /\ parse_call = ParseCall("none", RetNone(""))

ResponseInputs(o) ==
    {o}
    \cup {Altered(o, p, v) : p \in (IF Len(o.regs) <= MaxAlteredRegs
                                    THEN 1..FrameLen(o) ELSE {}), v \in Byte}
    \cup {Miscounted(o, c) : c \in (0..(FrameLen(o) - 2)) \ {o.byte_count}}
    \cup {OtherFunction(o, f) : f \in FunctionCodes \ {FUNCTION_CODE_READ_HOLDING_REGISTERS}}
    \cup {Truncated(o, p) : p \in 2..(FrameLen(o) - 1)}

ParseInit ==
    /\ \E o \in ValidOrigins : response_origin \in ResponseInputs(o)
    /\ rx_response = ResponseOf(response_origin)
    \* an altered frame differs from the frame it was made of
    /\ response_origin.kind = "altered" =>
           response_origin.val # MockResponse(response_origin.addr, response_origin.fc,
                                     response_origin.byte_count,
                                     response_origin.regs)[response_origin.pos]
    /\ parse_call = ParseCall("none", RetNone(""))

ParseRegisterResponse ==
    /\ parse_call.op = "none"
    /\ parse_call' = ParseCall("parse_register_response", parse_register_response(rx_response))
    /\ UNCHANGED <<response_origin, rx_response, parse_frame>>

GetCellvol1VoltageMv ==
    /\ parse_call.op = "none"
    /\ modbus_class = "JKBMSModbus"
    /\ parse_call' = ParseCall("get_cellvol1_voltage_mv", get_cellvol1_voltage_mv(rx_response))
    /\ UNCHANGED <<response_origin, rx_response, parse_frame>>

ParseNext ==
    \/ ParseRegisterResponse
    \/ GetCellvol1VoltageMv

(***************************************************************************)
(* ASCII protocol of PACEBMS, pacebms.py.  A string is a sequence of        *)
(* one-character strings.  The characters of the model are the uppercase   *)
(* hex digits, "~" and "G" (a character int(x, 16) rejects).               *)
(* Decimal telemetry is kept in hundredths: temperatures in 0.01 degC,     *)
(* currents in 0.01 A, voltages in 0.01 V, capacities in 0.01 Ah.          *)
(***************************************************************************)
MaxPacks == 1
MaxCells == 1
MaxTemps == 1

HexDigits == <<"0", "1", "2", "3", "4", "5", "6", "7",
               "8", "9", "A", "B", "C", "D", "E", "F">>
IsHexDigit(c) == \E i \in 1..16 : HexDigits[i] = c
HexVal(c) == (CHOOSE i \in 1..16 : HexDigits[i] = c) - 1
\* the byte value of a character
Ord(c) == IF c = "~" THEN 126
          ELSE IF c = "G" THEN 71
          ELSE IF c = "\r" THEN 13
          ELSE IF HexVal(c) < 10 THEN 48 + HexVal(c) ELSE 55 + HexVal(c)

\* format(v, 'X'): uppercase hex without padding
RECURSIVE FormatX(_)
FormatX(v) == IF v < 16 THEN <<HexDigits[v + 1]>>
              ELSE FormatX(v \div 16) \o <<HexDigits[(v % 16) + 1]>>
\* f"{v:0nX}"
RECURSIVE ZeroPad(_, _)
ZeroPad(str, n) == IF Len(str) >= n THEN str ELSE ZeroPad(<<"0">> \o str, n)
Hex2(v) == ZeroPad(FormatX(v), 2)
Hex3(v) == ZeroPad(FormatX(v), 3)
Hex4(v) == ZeroPad(FormatX(v), 4)

\* int(str, 16) of a string of hex digits
RECURSIVE IntHex(_)
IntHex(str) == IF str = <<>> THEN 0
               ELSE IntHex(SubSeq(str, 1, Len(str) - 1)) * 16 + HexVal(str[Len(str)])
AllHex(str) == \A i \in 1..Len(str) : IsHexDigit(str[i])

RECURSIVE SumOrd(_, _)
SumOrd(data, i) == IF i > Len(data) THEN 0 ELSE Ord(data[i]) + SumOrd(data, i + 1)
RECURSIVE SumHexVal(_, _)
SumHexVal(str, i) == IF i > Len(str) THEN 0 ELSE HexVal(str[i]) + SumHexVal(str, i + 1)

\* lchksum_calc, pacebms.py:9-19: digit sum mod 16, four bits flipped, plus 1, mod 16
\* (int() raises on a character that is no hex digit and False is returned)
ChecksumFailed == <<"False">>

\* a variant that flips the bits and adds nothing
LchksumOnesComplement(lenid) ==
    IF ~AllHex(lenid) THEN ChecksumFailed
    ELSE FormatX(15 - (SumHexVal(lenid, 1) % 16))

lchksum_calc(lenid) ==
    IF ~AllHex(lenid) THEN ChecksumFailed
    ELSE LET chksum == SumHexVal(lenid, 1) % 16
         IN FormatX(((15 - chksum) + 1) % 16)

\* chksum_calc, pacebms.py:21-31: sum of the bytes after the first, mod 65536,
\* sixteen bits flipped, plus 1, formatted without padding
chksum_calc(data) ==
    LET chksum == SumOrd(data, 2) % 65536
    IN FormatX((65535 - chksum) + 1)

\* the value a decoder call returns or the exception it raises
AsciiRet(ok, error, packs) == [ok |-> ok, error |-> error, packs |-> packs]
Raised(error) == AsciiRet(FALSE, error, <<>>)

\* line 153: fields = [response[i:i + 2] for i in range(0, len(response), 2)]
RECURSIVE Fields(_)
Fields(response) ==
    IF Len(response) = 0 THEN <<>>
    ELSE IF Len(response) = 1 THEN <<response>>
    ELSE <<SubSeq(response, 1, 2)>> \o Fields(SubSeq(response, 3, Len(response)))

\* int(fields[offset], 16) when width = 1, int(fields[offset] + fields[offset + 1], 16)
\* when width = 2 (offset is 0-based): the value, or the exception raised
ReadInt(fields, offset, width) ==
    IF offset + width > Len(fields) THEN [error |-> "IndexError", val |-> 0]
    ELSE LET str == IF width = 1 THEN fields[offset + 1]
                    ELSE fields[offset + 1] \o fields[offset + 2]
         IN IF AllHex(str) THEN [error |-> "", val |-> IntHex(str)]
            ELSE [error |-> "ValueError", val |-> 0]

\* n consecutive reads of the given width from offset: the values, or the
\* first exception
RECURSIVE ReadList(_, _, _, _)
ReadList(fields, offset, width, n) ==
    IF n = 0 THEN [error |-> "", vals |-> <<>>]
    ELSE LET first == ReadInt(fields, offset, width)
         IN IF first.error # "" THEN [error |-> first.error, vals |-> <<>>]
            ELSE LET rest == ReadList(fields, offset + width, width, n - 1)
                 IN IF rest.error # "" THEN rest
                    ELSE [error |-> "", vals |-> <<first.val>> \o rest.vals]

\* reads of the given widths, one after the other
RECURSIVE ReadSeq(_, _, _)
ReadSeq(fields, offset, widths) ==
    IF widths = <<>> THEN [error |-> "", vals |-> <<>>]
    ELSE LET first == ReadInt(fields, offset, Head(widths))
         IN IF first.error # "" THEN [error |-> first.error, vals |-> <<>>]
            ELSE LET rest == ReadSeq(fields, offset + Head(widths), Tail(widths))
                 IN IF rest.error # "" THEN rest
                    ELSE [error |-> "", vals |-> <<first.val>> \o rest.vals]

\* line 200: round(temperature / 10 - 273.15, 2), in 0.01 degC
TempCentiC(raw) == raw * 10 - 27315
\* lines 207-209: round(pack_current / 100, 2); if pack_current > 32767: -= 65536,
\* in 0.01 A (the comparison is made on the value in A)
CurrentCentiA(raw) == IF raw > 32767 * 100 THEN raw - 65536 * 100 ELSE raw
\* line 215: round(pack_total_voltage / 1000, 2), in 0.01 V (inputs are not
\* half-way between two hundredths)
VoltageCentiV(raw) == (raw + 5) \div 10

\* lines 205-244: current(2) voltage(2) remain(2) define_number_p(1) full(2)
\* cycle(2) design(2)
PackScalarWidths == <<2, 2, 2, 1, 2, 2, 2>>

\* lines 176-246: one pack from offset: the pack and the next offset, or the
\* exception raised
ParsePack(fields, offset) ==
    LET num_cells == ReadInt(fields, offset, 1)
    IN IF num_cells.error # "" THEN [error |-> num_cells.error]
       ELSE
    LET cells == ReadList(fields, offset + 1, 2, num_cells.val)
        off2 == offset + 1 + 2 * num_cells.val
    IN IF cells.error # "" THEN [error |-> cells.error]
       ELSE
    LET num_temps == ReadInt(fields, off2, 1)
    IN IF num_temps.error # "" THEN [error |-> num_temps.error]
       ELSE
    LET temps == ReadList(fields, off2 + 1, 2, num_temps.val)
        off3 == off2 + 1 + 2 * num_temps.val
    IN IF temps.error # "" THEN [error |-> temps.error]
       ELSE
    LET sc == ReadSeq(fields, off3, PackScalarWidths)
    IN IF sc.error # "" THEN [error |-> sc.error]
       ELSE [error |-> "",
             offset |-> off3 + 13,
             pack |-> [num_cells |-> num_cells.val,
                       cell_voltages |-> cells.vals,
                       num_temps |-> num_temps.val,
                       temperatures |-> [i \in 1..Len(temps.vals) |->
                                            TempCentiC(temps.vals[i])],
                       pack_current |-> CurrentCentiA(sc.vals[1]),
                       pack_total_voltage |-> VoltageCentiV(sc.vals[2]),
                       pack_remain_capacity |-> sc.vals[3],
                       pack_full_capacity |-> sc.vals[5],
                       cycle_number |-> sc.vals[6],
                       pack_design_capacity |-> sc.vals[7]]]

\* line 175: for pack_index in range(num_packs)
RECURSIVE ParsePacks(_, _, _)
ParsePacks(fields, offset, n) ==
    IF n = 0 THEN [error |-> "", packs |-> <<>>]
    ELSE LET first == ParsePack(fields, offset)
         IN IF first.error # "" THEN [error |-> first.error, packs |-> <<>>]
            ELSE LET rest == ParsePacks(fields, first.offset, n - 1)
                 IN IF rest.error # "" THEN rest
                    ELSE [error |-> "", packs |-> <<first.pack>> \o rest.packs]

\* PACEBMS.parse_analog_data, pacebms.py:136-248
parse_analog_data(response) ==
    LET stripped == IF response[1] = "~" THEN Tail(response) ELSE response
        fields == Fields(stripped)
    IN IF Len(fields) < 3 THEN Raised("IndexError")
       ELSE IF fields[3] # <<"4", "6">> THEN Raised("ValueError")
       ELSE IF Len(fields) < 4 THEN Raised("IndexError")
       ELSE IF fields[4] # <<"0", "0">> THEN Raised("ValueError")
       ELSE
    LET length == ReadInt(fields, 4, 2)
    IN IF length.error # "" THEN Raised(length.error)
       ELSE
    LET infoflag == ReadInt(fields, 6, 1)
    IN IF infoflag.error # "" THEN Raised(infoflag.error)
       ELSE
    LET num_packs == ReadInt(fields, 7, 1)
    IN IF num_packs.error # "" THEN Raised(num_packs.error)
       ELSE
    LET packs == ParsePacks(fields, 8, num_packs.val)
    IN IF packs.error # "" THEN Raised(packs.error)
       ELSE AsciiRet(TRUE, "", packs.packs)

\* max(values) and min(values) of a non-empty list, from position i
RECURSIVE MaxOf(_, _)
MaxOf(values, i) ==
    IF i = Len(values) THEN values[i]
    ELSE LET m == MaxOf(values, i + 1) IN IF values[i] >= m THEN values[i] ELSE m
RECURSIVE MinOf(_, _)
MinOf(values, i) ==
    IF i = Len(values) THEN values[i]
    ELSE LET m == MinOf(values, i + 1) IN IF values[i] <= m THEN values[i] ELSE m

(***************************************************************************)
(* TDTBMS232.parse_analog_data, tdtbms_rs232.py:171-304: one pack per      *)
(* response.  Units: current 0.01 A, voltage 0.01 V, power 0.1 W (the      *)
(* code's 0.0001 kW), energy 0.1 W s, capacity 0.01 Ah, SOC 0.1 %, SOH 1 %.*)
(***************************************************************************)
\* tdtbms_rs232.py:9, the refresh interval of the configuration, in s
data_refresh_interval == 10

\* hex_to_signed, tdtbms_rs232.py:41-59, on the integer int(hex_str, 16):
\* if raw & 0x8000 then -((~raw & 0xFFFF) + 1) else raw
hex_to_signed(raw) ==
    IF (raw \div 32768) % 2 = 1 THEN -((65535 - (raw % 65536)) + 1) ELSE raw

\* round(n / d, 0) on integers, d > 0: nearest, ties to even
RoundDiv(n, d) ==
    LET q == n \div d
        r == n % d
    IN IF 2 * r > d \/ (2 * r = d /\ q % 2 = 1) THEN q + 1 ELSE q

\* lines 213-301: the pack's values after the cells and the temperatures
\* (line 285 has divided by a full capacity that is not 0)
TdtPackData(num_cells, cells, num_temps, temps, sc) ==
    LET view_current == hex_to_signed(sc[1])
        view_voltage == VoltageCentiV(sc[2])
        view_power == RoundDiv(view_voltage * view_current, 1000)
    IN IF sc[7] = 0 THEN Raised("ZeroDivisionError")
       ELSE AsciiRet(TRUE, "", <<
            [view_num_cells |-> num_cells,
             cell_voltages |-> cells,
             cell_voltage_max |-> MaxOf(cells, 1),
             cell_voltage_min |-> MinOf(cells, 1),
             view_num_temps |-> num_temps,
             temperatures |-> [i \in 1..Len(temps) |-> TempCentiC(temps[i])],
             view_current |-> view_current,
             view_voltage |-> view_voltage,
             view_power |-> view_power,
             view_energy_charged |->
                 IF view_power >= 0 THEN view_power * data_refresh_interval ELSE 0,
             view_energy_discharged |->
                 IF view_power < 0 THEN (-view_power) * data_refresh_interval ELSE 0,
             view_remain_capacity |-> sc[3],
             view_full_capacity |-> sc[5],
             view_SOC |-> RoundDiv(sc[3] * 1000, sc[5]),
             view_cycle_number |-> sc[6],
             view_design_capacity |-> sc[7],
             view_SOH |-> RoundDiv(sc[5] * 100, sc[7])]>>)

\* TDTBMS232.parse_analog_data, tdtbms_rs232.py:171-304: the pack of the
\* response (as the only element of packs), or the exception raised
tdt_parse_analog_data(response, pack_number) ==
    LET stripped == IF response[1] = "~" THEN Tail(response) ELSE response
        fields == Fields(stripped)
    IN IF Len(fields) < 3 THEN Raised("IndexError")
       ELSE IF fields[3] # <<"4", "6">> THEN Raised("ValueError")
       ELSE IF Len(fields) < 4 THEN Raised("IndexError")
       ELSE IF fields[4] # <<"0", "0">> THEN Raised("ValueError")
       ELSE
    LET length == ReadInt(fields, 4, 2)
    IN IF length.error # "" THEN Raised(length.error)
       ELSE
    LET infoflag == ReadInt(fields, 6, 1)
    IN IF infoflag.error # "" THEN Raised(infoflag.error)
       ELSE
    LET num_packs == ReadInt(fields, 7, 1)
    IN IF num_packs.error # "" THEN Raised(num_packs.error)
       ELSE IF Some(num_packs.val) # pack_number THEN Raised("ValueError")
       ELSE
    LET num_cells == ReadInt(fields, 8, 1)
    IN IF num_cells.error # "" THEN Raised(num_cells.error)
       ELSE
    LET cells == ReadList(fields, 9, 2, num_cells.val)
        off2 == 9 + 2 * num_cells.val
    IN IF cells.error # "" THEN Raised(cells.error)
       ELSE IF num_cells.val = 0 THEN Raised("ValueError")
       ELSE
    LET num_temps == ReadInt(fields, off2, 1)
    IN IF num_temps.error # "" THEN Raised(num_temps.error)
       ELSE
    LET temps == ReadList(fields, off2 + 1, 2, num_temps.val)
        off3 == off2 + 1 + 2 * num_temps.val
    IN IF temps.error # "" THEN Raised(temps.error)
       ELSE
    LET sc == ReadSeq(fields, off3, SubSeq(PackScalarWidths, 1, 5))
    IN IF sc.error # "" THEN Raised(sc.error)
       ELSE IF sc.vals[5] = 0 THEN Raised("ZeroDivisionError")
       ELSE
    LET sc2 == ReadSeq(fields, off3 + 9, SubSeq(PackScalarWidths, 6, 7))
    IN IF sc2.error # "" THEN Raised(sc2.error)
       ELSE TdtPackData(num_cells.val, cells.vals, num_temps.val, temps.vals,
                        sc.vals \o sc2.vals)

(***************************************************************************)
(* Warning responses of the ASCII family: extract_warnstate,               *)
(* interpret_warning, parse_warnstate and parse_warning_data of PACEBMS    *)
(* (pacebms.py:253-476) and of TDTBMS232 (tdtbms_rs232.py:309-545).        *)
(***************************************************************************)
\* int(str, 16): the value, or the exception raised
IntOf(str) ==
    IF str # <<>> /\ AllHex(str) THEN [error |-> "", val |-> IntHex(str)]
    ELSE [error |-> "ValueError", val |-> 0]

\* bytes.fromhex(str): the bytes, or the exception raised
RECURSIVE HexPairs(_)
HexPairs(str) ==
    IF str = <<>> THEN <<>>
    ELSE <<IntHex(SubSeq(str, 1, 2))>> \o HexPairs(SubSeq(str, 3, Len(str)))
BytesFromHex(str) ==
    IF AllHex(str) /\ Len(str) % 2 = 0 THEN [error |-> "", bytes |-> HexPairs(str)]
    ELSE [error |-> "ValueError", bytes |-> <<>>]

\* value & mask # 0 for a mask of one bit
\* the lowest bit read in the place of the second one
BitLowAsSecond(value, mask) == (value \div (IF mask = 1 THEN 2 ELSE mask)) % 2 = 1
Bit(value, mask) == (value \div mask) % 2 = 1

\* the mapping with 'user defined' drawn one value too far (0x80..0xF0)
InterpretWarningThroughF0(value) ==
    IF value = 0 THEN "normal"
    ELSE IF value = 1 THEN "below lower limit"
    ELSE IF value = 2 THEN "above upper limit"
    ELSE IF 128 <= value /\ value <= 240 THEN "user defined"
    ELSE "unknown"

\* TDTBMS232.interpret_warning, tdtbms_rs232.py:352-364
tdt_interpret_warning(value) ==
    IF value = 0 THEN "normal"
    ELSE IF value = 1 THEN "below lower limit"
    ELSE IF value = 2 THEN "above upper limit"
    ELSE IF 128 <= value /\ value <= 239 THEN "user defined"
    ELSE IF value = 240 THEN "other fault"
    ELSE "unknown"

\* PACEBMS.interpret_warning, pacebms.py:286-298 (the entries of the two
\* counted lists are read by the same lines in both classes)
interpret_warning(value) ==
    IF value = 0 THEN "normal"
    ELSE IF value = 1 THEN "below lower limit"
    ELSE IF value = 2 THEN "above upper limit"
    ELSE IF 128 <= value /\ value <= 239 THEN "user defined"
    ELSE IF value = 240 THEN "other fault"
    ELSE "unknown"

\* PACEBMS.extract_warnstate, pacebms.py:253-283: WARNSTATE, or the exception
pace_extract_warnstate(data) ==
    IF data[1] # "~" THEN [error |-> "ValueError", warnstate |-> <<>>]
    ELSE
    LET d == Tail(data)
        length == IntOf(Slice(d, 8, 12))
    IN IF length.error # "" THEN [error |-> length.error, warnstate |-> <<>>]
       ELSE LET datainfo == Slice(d, 12, 12 + length.val * 2)
            IN [error |-> "", warnstate |-> Slice(datainfo, 2, Len(datainfo))]

\* TDTBMS232.extract_warnstate, tdtbms_rs232.py:309-349
tdt_extract_warnstate(data, pack_number) ==
    IF data[1] # "~" THEN [error |-> "ValueError", warnstate |-> <<>>]
    ELSE
    LET d == Tail(data)
        num_pack == IntOf(Slice(d, 14, 16))
    IN IF num_pack.error # "" THEN [error |-> num_pack.error, warnstate |-> <<>>]
       ELSE IF Some(num_pack.val) # pack_number
       THEN [error |-> "ValueError", warnstate |-> <<>>]
       ELSE IF Slice(d, 4, 6) # <<"4", "6">> \/ Slice(d, 6, 8) # <<"0", "0">>
       THEN [error |-> "ValueError", warnstate |-> <<>>]
       ELSE
    LET length == IntOf(Slice(d, 8, 12))
    IN IF length.error # "" THEN [error |-> length.error, warnstate |-> <<>>]
       ELSE LET datainfo == Slice(d, 12, 12 + length.val * 2)
            IN [error |-> "", warnstate |-> Slice(datainfo, 2, Len(datainfo))]

\* the bytes after the two counted lists: three warnings and nine states
WarnStateBytes == 12

\* pacebms.py:313-440 and tdtbms_rs232.py:379-507: the bytes of one pack read
\* from index (1-based), or the IndexError of a read past the end
WarnFields(bytes, index) ==
    IF index > Len(bytes) THEN [error |-> "IndexError"]
    ELSE
    LET cell_number == bytes[index]
    IN IF cell_number > 0 /\ index + cell_number > Len(bytes) THEN [error |-> "IndexError"]
       ELSE
    LET idx2 == index + 1 + cell_number
    IN IF idx2 > Len(bytes) THEN [error |-> "IndexError"]
       ELSE
    LET temp_sensor_number == bytes[idx2]
    IN IF temp_sensor_number > 0 /\ idx2 + temp_sensor_number > Len(bytes)
       THEN [error |-> "IndexError"]
       ELSE
    LET idx3 == idx2 + 1 + temp_sensor_number
    IN IF idx3 + WarnStateBytes - 1 > Len(bytes) THEN [error |-> "IndexError"]
       ELSE [error |-> "",
             index |-> idx3 + WarnStateBytes,
             cell_number |-> cell_number,
             cell_voltage_warnings |->
                 [i \in 1..cell_number |-> interpret_warning(bytes[index + i])],
             temp_sensor_number |-> temp_sensor_number,
             temp_sensor_warnings |->
                 [i \in 1..temp_sensor_number |-> interpret_warning(bytes[idx2 + i])],
             st |-> SubSeq(bytes, idx3, idx3 + WarnStateBytes - 1)]

\* pacebms.py:340-440 and 452-469: the record of one pack
PaceWarnPack(f) ==
    [cell_number |-> f.cell_number,
     cell_voltage_warnings |-> f.cell_voltage_warnings,
     temp_sensor_number |-> f.temp_sensor_number,
     temp_sensor_warnings |-> f.temp_sensor_warnings,
     charge_current_warn |-> interpret_warning(f.st[1]),
     total_voltage_warn |-> interpret_warning(f.st[2]),
     discharge_current_warn |-> interpret_warning(f.st[3]),
     protect_state_1 |->
        [short_circuit_protect |-> Bit(f.st[4], 64),
         discharge_current_protect |-> Bit(f.st[4], 32),
         charge_current_protect |-> Bit(f.st[4], 16),
         lower_total_voltage_protect |-> Bit(f.st[4], 8),
         above_total_voltage_protect |-> Bit(f.st[4], 4),
         lower_cell_voltage_protect |-> Bit(f.st[4], 2),
         above_cell_voltage_protect |-> Bit(f.st[4], 1)],
     protect_state_2 |->
        [fully_protect |-> Bit(f.st[5], 128),
         lower_env_temperature_protect |-> Bit(f.st[5], 64),
         above_env_temperature_protect |-> Bit(f.st[5], 32),
         above_MOS_temperature_protect |-> Bit(f.st[5], 16),
         lower_discharge_temperature_protect |-> Bit(f.st[5], 8),
         lower_charge_temperature_protect |-> Bit(f.st[5], 4),
         above_discharge_temperature_protect |-> Bit(f.st[5], 2),
         above_charge_temperature_protect |-> Bit(f.st[5], 1)],
     instruction_state |->
        [hert_indicate |-> Bit(f.st[6], 128),
         acin |-> Bit(f.st[6], 32),
         reverse_indicate |-> Bit(f.st[6], 16),
         pack_indicate |-> Bit(f.st[6], 8),
         dfet_indicate |-> Bit(f.st[6], 4),
         cfet_indicate |-> Bit(f.st[6], 2),
         current_limit_indicate |-> Bit(f.st[6], 1)],
     control_state |->
        [led_warn_function |-> Bit(f.st[7], 32),
         current_limit_function |-> Bit(f.st[7], 16),
         current_limit_gear |-> Bit(f.st[7], 8),
         buzzer_warn_function |-> Bit(f.st[7], 1)],
     fault_state |->
        [sample_fault |-> Bit(f.st[8], 32),
         cell_fault |-> Bit(f.st[8], 16),
         ntc_fault |-> Bit(f.st[8], 4),
         discharge_mos_fault |-> Bit(f.st[8], 2),
         charge_mos_fault |-> Bit(f.st[8], 1)],
     balance_state_1 |-> f.st[9],
     balance_state_2 |-> f.st[10],
     warn_state_1 |->
        [discharge_current_warn |-> Bit(f.st[11], 32),
         charge_current_warn |-> Bit(f.st[11], 16),
         lower_total_voltage_warn |-> Bit(f.st[11], 8),
         above_total_voltage_warn |-> Bit(f.st[11], 4),
         lower_cell_voltage_warn |-> Bit(f.st[11], 2),
         above_cell_voltage_warn |-> Bit(f.st[11], 1)],
     warn_state_2 |->
        [low_power_warn |-> Bit(f.st[12], 128),
         high_MOS_temperature_warn |-> Bit(f.st[12], 64),
         low_env_temperature_warn |-> Bit(f.st[12], 32),
         high_env_temperature_warn |-> Bit(f.st[12], 16),
         low_discharge_temperature_warn |-> Bit(f.st[12], 8),
         low_charge_temperature_warn |-> Bit(f.st[12], 4),
         above_discharge_temperature_warn |-> Bit(f.st[12], 2),
         above_charge_temperature_warn |-> Bit(f.st[12], 1)]]

\* tdtbms_rs232.py:407-507 and 520-537: the record of the pack
TdtWarnPack(f) ==
    [cell_number |-> f.cell_number,
     cell_voltage_warnings |-> f.cell_voltage_warnings,
     temp_sensor_number |-> f.temp_sensor_number,
     temp_sensor_warnings |-> f.temp_sensor_warnings,
     warn_charge_current |-> tdt_interpret_warning(f.st[1]),
     warn_total_voltage |-> tdt_interpret_warning(f.st[2]),
     warn_discharge_current |-> tdt_interpret_warning(f.st[3]),
     protect_state_1 |->
        [protect_short_circuit |-> Bit(f.st[4], 64),
         protect_high_discharge_current |-> Bit(f.st[4], 32),
         protect_high_charge_current |-> Bit(f.st[4], 16),
         protect_low_total_voltage |-> Bit(f.st[4], 8),
         protect_high_total_voltage |-> Bit(f.st[4], 4),
         protect_low_cell_voltage |-> Bit(f.st[4], 2),
         protect_high_cell_voltage |-> Bit(f.st[4], 1)],
     protect_state_2 |->
        [status_fully_charged |-> Bit(f.st[5], 128),
         protect_low_env_temp |-> Bit(f.st[5], 64),
         protect_high_env_temp |-> Bit(f.st[5], 32),
         protect_high_MOS_temp |-> Bit(f.st[5], 16),
         protect_low_discharge_temp |-> Bit(f.st[5], 8),
         protect_low_charge_temp |-> Bit(f.st[5], 4),
         protect_high_discharge_temp |-> Bit(f.st[5], 2),
         protect_high_charge_temp |-> Bit(f.st[5], 1)],
     instruction_state |->
        [status_charger_avaliable |-> Bit(f.st[6], 32),
         status_reverse_connected |-> Bit(f.st[6], 16),
         status_discharge_enabled |-> Bit(f.st[6], 4),
         status_charge_enabled |-> Bit(f.st[6], 2),
         status_current_limit_enabled |-> Bit(f.st[6], 1)],
     control_state |->
        [led_warn_function |-> Bit(f.st[7], 32),
         current_limit_function |-> Bit(f.st[7], 16),
         current_limit_gear |-> Bit(f.st[7], 8),
         buzzer_warn_function |-> Bit(f.st[7], 1)],
     fault_state |->
        [fault_sampling |-> Bit(f.st[8], 32),
         fault_cell |-> Bit(f.st[8], 16),
         fault_NTC |-> Bit(f.st[8], 4),
         fault_discharge_MOS |-> Bit(f.st[8], 2),
         fault_charge_MOS |-> Bit(f.st[8], 1)],
     balance_state_1 |-> f.st[9],
     balance_state_2 |-> f.st[10],
     warn_state_1 |->
        [warn_high_discharge_current |-> Bit(f.st[11], 32),
         warn_high_charge_current |-> Bit(f.st[11], 16),
         warn_low_total_voltage |-> Bit(f.st[11], 8),
         warn_high_total_voltage |-> Bit(f.st[11], 4),
         warn_low_cell_voltage |-> Bit(f.st[11], 2),
         warn_high_cell_voltage |-> Bit(f.st[11], 1)],
     warn_state_2 |->
        [warn_low_SOC |-> Bit(f.st[12], 128),
         warn_high_MOS_temp |-> Bit(f.st[12], 64),
         warn_low_env_temp |-> Bit(f.st[12], 32),
         warn_high_env_temp |-> Bit(f.st[12], 16),
         warn_low_discharge_temp |-> Bit(f.st[12], 8),
         warn_low_charge_temp |-> Bit(f.st[12], 4),
         warn_high_discharge_temp |-> Bit(f.st[12], 2),
         warn_high_charge_temp |-> Bit(f.st[12], 1)]]

\* pacebms.py:310-442: for _ in range(pack_number)
RECURSIVE PaceWarnPacks(_, _, _)
PaceWarnPacks(bytes, index, n) ==
    IF n = 0 THEN [error |-> "", packs |-> <<>>]
    ELSE LET f == WarnFields(bytes, index)
         IN IF f.error # "" THEN [error |-> f.error, packs |-> <<>>]
            ELSE LET rest == PaceWarnPacks(bytes, f.index, n - 1)
                 IN IF rest.error # "" THEN rest
                    ELSE [error |-> "", packs |-> <<PaceWarnPack(f)>> \o rest.packs]

\* PACEBMS.parse_warning_data, pacebms.py:448-476, with parse_warnstate,
\* pacebms.py:300-444
parse_warning_data(data) ==
    LET ws == pace_extract_warnstate(data)
    IN IF ws.error # "" THEN Raised(ws.error)
       ELSE
    LET b == BytesFromHex(ws.warnstate)
    IN IF b.error # "" THEN Raised(b.error)
       ELSE IF b.bytes = <<>> THEN Raised("IndexError")
       ELSE
    LET packs == PaceWarnPacks(b.bytes, 2, b.bytes[1])
    IN IF packs.error # "" THEN Raised(packs.error)
       ELSE AsciiRet(TRUE, "", packs.packs)

\* TDTBMS232.parse_warning_data, tdtbms_rs232.py:514-545, with
\* parse_warnstate, tdtbms_rs232.py:366-512: the pack as the only element
tdt_parse_warning_data(data, pack_number) ==
    LET ws == tdt_extract_warnstate(data, pack_number)
    IN IF ws.error # "" THEN Raised(ws.error)
       ELSE
    LET b == BytesFromHex(ws.warnstate)
    IN IF b.error # "" THEN Raised(b.error)
       ELSE IF b.bytes = <<>> THEN Raised("IndexError")
       ELSE
    LET f == WarnFields(b.bytes, 2)
    IN IF f.error # "" THEN Raised(f.error)
       ELSE AsciiRet(TRUE, "", <<TdtWarnPack(f)>>)

(***************************************************************************)
(* Responses handed to the ASCII decoder: a well-formed analog response    *)
(* '~' VER ADR CID1 RTN LCHKSUM LENID INFO CHKSUM (the frame layout of     *)
(* generate_bms_request, pacebms.py:56-81, with the return code in the     *)
(* place of CID2; receive_data strips the carriage return), optionally     *)
(* with one character replaced.                                            *)
(***************************************************************************)
CellSamples == {3300}
TempSamples == {2931}
\* current, voltage, remain, P, full, cycle, design
ScalarSamples == {<<65531, 52000, 5000, 3, 10000, 7, 10000>>,
                  <<100, 48004, 0, 3, 10000, 0, 10000>>}
AlterChars == {"0", "1", "D", "G"}

PackSamples ==
    {[cells |-> c, temps |-> t, scalars |-> sc] :
        c \in UNION {[1..n -> CellSamples] : n \in 0..MaxCells},
        t \in UNION {[1..n -> TempSamples] : n \in 0..MaxTemps},
        sc \in ScalarSamples}
PackLists == UNION {[1..n -> PackSamples] : n \in 1..MaxPacks}

RECURSIVE Hex4List(_, _)
Hex4List(vals, i) == IF i > Len(vals) THEN <<>> ELSE Hex4(vals[i]) \o Hex4List(vals, i + 1)

PackInfo(pk) ==
    Hex2(Len(pk.cells)) \o Hex4List(pk.cells, 1)
    \o Hex2(Len(pk.temps)) \o Hex4List(pk.temps, 1)
    \o Hex4(pk.scalars[1]) \o Hex4(pk.scalars[2]) \o Hex4(pk.scalars[3])
    \o Hex2(pk.scalars[4])
    \o Hex4(pk.scalars[5]) \o Hex4(pk.scalars[6]) \o Hex4(pk.scalars[7])

RECURSIVE PacksInfo(_, _)
PacksInfo(packs, i) ==
    IF i > Len(packs) THEN <<>> ELSE PackInfo(packs[i]) \o PacksInfo(packs, i + 1)

AnalogResponse(packs) ==
    LET info == <<"0", "0">> \o Hex2(Len(packs)) \o PacksInfo(packs, 1)
        lenid == Hex3(Len(info))
        request == <<"~", "2", "5", "0", "0", "4", "6", "0", "0">>
                      \o lchksum_calc(lenid) \o lenid \o info
    IN request \o chksum_calc(request)

\* a warning response: per pack the cell warnings, the temperature warnings
\* and the twelve bytes after them (pacebms.py:313-440)
WarnSamples == {0, 2}
WarnTempSamples == {0}
WarnStateSamples == {<<0, 0, 0, 0, 0, 0, 0, 0, 0, 0, 0, 0>>,
                     <<1, 2, 0, 64, 128, 38, 1, 32, 3, 0, 33, 129>>}
WarnPackSamples ==
    {[cells |-> c, temps |-> t, states |-> st] :
        c \in UNION {[1..n -> WarnSamples] : n \in 0..MaxCells},
        t \in UNION {[1..n -> WarnTempSamples] : n \in 0..MaxTemps},
        st \in WarnStateSamples}
WarnPackLists == UNION {[1..n -> WarnPackSamples] : n \in 1..MaxPacks}

RECURSIVE Hex2List(_, _)
Hex2List(vals, i) == IF i > Len(vals) THEN <<>> ELSE Hex2(vals[i]) \o Hex2List(vals, i + 1)

WarnPackInfo(pk) ==
    Hex2(Len(pk.cells)) \o Hex2List(pk.cells, 1)
    \o Hex2(Len(pk.temps)) \o Hex2List(pk.temps, 1)
    \o Hex2List(pk.states, 1)

RECURSIVE WarnPacksInfo(_, _)
WarnPacksInfo(packs, i) ==
    IF i > Len(packs) THEN <<>>
    ELSE WarnPackInfo(packs[i]) \o WarnPacksInfo(packs, i + 1)

\* the CID1 and the return codes of the responses: the expected ones and one
\* other each
Cid1Samples == {<<"4", "6">>, <<"4", "7">>}
RtnSamples == {<<"0", "0">>, <<"0", "2">>}

WarningResponse(cid1, rtn, packs) ==
    LET info == <<"0", "0">> \o Hex2(Len(packs)) \o WarnPacksInfo(packs, 1)
        lenid == Hex3(Len(info))
        request == <<"~", "2", "5", "0", "0">> \o cid1 \o rtn
                      \o lchksum_calc(lenid) \o lenid \o info
    IN request \o chksum_calc(request)

WarnOrigin(kind, cid1, rtn, packs, pos, char) ==
    [kind |-> kind, cid1 |-> cid1, rtn |-> rtn, packs |-> packs,
     pos |-> pos, char |-> char]

AsciiOrigin(kind, packs, pos, char) ==
    [kind |-> kind, packs |-> packs, pos |-> pos, char |-> char]
NoAsciiOrigin == AsciiOrigin("none", <<>>, 0, "0")

AsciiResponseOf(o) ==
    IF o.kind = "altered"
    THEN [AnalogResponse(o.packs) EXCEPT ![o.pos] = o.char]
    ELSE IF o.kind = "valid" THEN AnalogResponse(o.packs)
    ELSE IF o.kind = "warning_altered"
    THEN [WarningResponse(o.cid1, o.rtn, o.packs) EXCEPT ![o.pos] = o.char]
    ELSE WarningResponse(o.cid1, o.rtn, o.packs)

AsciiCall(op, pack_number, ret) == [op |-> op, pack_number |-> pack_number, ret |-> ret]

\* no ASCII response received
AsciiIdle ==
    /\ ascii_origin = NoAsciiOrigin
    /\ ascii_response = <<>>
    /\ ascii_call = AsciiCall("none", None, Raised(""))

AsciiInit ==
    /\ \/ \E packs \in PackLists :
             \/ ascii_origin = AsciiOrigin("valid", packs, 0, "0")
             \/ \E p \in 1..Len(AnalogResponse(packs)), c \in AlterChars :
                   /\ AnalogResponse(packs)[p] # c
                   /\ ascii_origin = AsciiOrigin("altered", packs, p, c)
       \/ \E packs \in WarnPackLists :
             \/ \E cid1 \in Cid1Samples, rtn \in RtnSamples :
                   ascii_origin = WarnOrigin("warning", cid1, rtn, packs, 0, "0")
             \/ \E p \in 1..Len(WarningResponse(<<"4", "6">>, <<"0", "0">>, packs)),
                    c \in AlterChars :
                   /\ WarningResponse(<<"4", "6">>, <<"0", "0">>, packs)[p] # c
                   /\ ascii_origin = WarnOrigin("warning_altered", <<"4", "6">>,
                                                <<"0", "0">>, packs, p, c)
    /\ ascii_response = AsciiResponseOf(ascii_origin)
    /\ ascii_call = AsciiCall("none", None, Raised(""))

ParseAnalogData ==
    /\ ascii_call.op = "none"
    /\ ascii_call' = AsciiCall("parse_analog_data", None,
                                parse_analog_data(ascii_response))
    /\ UNCHANGED <<ascii_origin, ascii_response, ascii_frame>>

\* pack numbers a response is decoded for: 1..MaxPacks and one more
AnalogPackNumbers == {Some(n) : n \in 1..(MaxPacks + 1)}

\* TDTBMS232.parse_analog_data(response, pack_number), as called at
\* tdtbms_rs232.py:703
TdtParseAnalogData(pack_number) ==
    /\ ascii_call.op = "none"
    /\ ascii_call' = AsciiCall("tdt_parse_analog_data", pack_number,
                                tdt_parse_analog_data(ascii_response, pack_number))
    /\ UNCHANGED <<ascii_origin, ascii_response, ascii_frame>>

\* PACEBMS.parse_warning_data(response), as called at pacebms.py:618
ParseWarningData ==
    /\ ascii_call.op = "none"
    /\ ascii_call' = AsciiCall("parse_warning_data", None,
                                parse_warning_data(ascii_response))
    /\ UNCHANGED <<ascii_origin, ascii_response, ascii_frame>>

\* TDTBMS232.parse_warning_data(response, pack_number), as called at
\* tdtbms_rs232.py:736
TdtParseWarningData(pack_number) ==
    /\ ascii_call.op = "none"
    /\ ascii_call' = AsciiCall("tdt_parse_warning_data", pack_number,
                                tdt_parse_warning_data(ascii_response, pack_number))
    /\ UNCHANGED <<ascii_origin, ascii_response, ascii_frame>>

AsciiNext ==
    \/ ParseAnalogData
    \/ \E pack_number \in AnalogPackNumbers : TdtParseAnalogData(pack_number)
    \/ ParseWarningData
    \/ \E pack_number \in AnalogPackNumbers : TdtParseWarningData(pack_number)

\* dict.get(key, default) and "x if x is not None else default"
OrDefault(value, default) == IF value = None THEN default ELSE value[1]

(***************************************************************************)
(* Requests of the ASCII protocol: generate_bms_request, pacebms.py:34-83  *)
(* and tdtbms_rs232.py:62-118, and calls of the two checksum functions     *)
(* (pacebms.py:9-31, tdtbms_rs232.py:17-39, the same code in both).        *)
(***************************************************************************)
Families == {"PACEBMS", "TDTBMS232"}

\* commands_table: the commands of a family
KnownCommands(family) ==
    {"pack_number", "analog", "software_version", "product_info", "capacity",
     "warning_info"}
    \cup (IF family = "TDTBMS232" THEN {"get_time", "pack_quantity"} ELSE {})

\* commands_table[command]
CID2(command) ==
    CASE command \in {"pack_number", "pack_quantity"} -> <<"9", "0">>
      [] command = "analog" -> <<"4", "2">>
      [] command = "software_version" -> <<"C", "1">>
      [] command = "product_info" -> <<"C", "2">>
      [] command = "capacity" -> <<"A", "6">>
      [] command = "warning_info" -> <<"4", "4">>
      [] command = "get_time" -> <<"B", "1">>

\* lenids_table[command]
LENID(command) ==
    IF command \in {"analog", "warning_info"} THEN <<"0", "0", "2">>
    ELSE <<"0", "0", "0">>

\* pack_number if pack_number is not None else 255
BroadcastPack == 255

\* what generate_bms_request returns, or the exception it raises
RequestRet(ok, error, request) == [ok |-> ok, error |-> error, request |-> request]

generate_bms_request(family, command, pack_number) ==
    IF command \notin KnownCommands(family)
    THEN RequestRet(FALSE, "ValueError", <<>>)
    ELSE
    LET ver == <<"2", "5">>
        cid1 == <<"4", "6">>
        cid2 == CID2(command)
        info == ZeroPad(FormatX(OrDefault(pack_number, BroadcastPack)), 2)
        adr == IF family = "TDTBMS232" THEN info ELSE <<"0", "0">>
        header == <<"~">> \o ver \o adr \o cid1 \o cid2
        lchksum == lchksum_calc(LENID(command))
        \* tdtbms_rs232.py:108-111 leaves INFO out when LENID is "000";
        \* pacebms.py:73 appends it always
        body == IF family = "TDTBMS232" /\ LENID(command) = <<"0", "0", "0">>
                THEN header \o lchksum \o LENID(command)
                ELSE header \o lchksum \o LENID(command) \o info
    IN RequestRet(TRUE, "", body \o chksum_calc(body) \o <<"\r">>)

\* inputs
Commands == KnownCommands("TDTBMS232") \cup {"reset"}
PackNumbers == {None, Some(0), Some(1), Some(2), Some(15), Some(16), Some(255)}
\* the characters of the frames handed to chksum_calc
FrameChars == {HexDigits[i] : i \in 1..16} \cup {"G", "\r"}
MaxFrameTail == 2
\* a start marker followed by at most MaxFrameTail characters
FramePrefixes ==
    {<<"~">> \o tail : tail \in UNION {[1..n -> FrameChars] : n \in 0..MaxFrameTail}}
\* every LENID of three hex digits
Lenids == [1..3 -> {HexDigits[i] : i \in 1..16}]

CodecCall(op, family, command, pack_number, data, ret) ==
    [op |-> op, family |-> family, command |-> command,
     pack_number |-> pack_number, data |-> data, ret |-> ret]

CodecIdle ==
    codec_call = CodecCall("none", "", "", None, <<>>, RequestRet(FALSE, "", <<>>))

\* one call is made in a behaviour: the functions keep no state
GenerateBmsRequest(family, command, pack_number) ==
    /\ codec_call.op = "none"
    /\ codec_call' = CodecCall("generate_bms_request", family, command, pack_number,
                         <<>>, generate_bms_request(family, command, pack_number))
    /\ UNCHANGED codec_frame

ChksumCalc(family, data) ==
    /\ codec_call.op = "none"
    /\ codec_call' = CodecCall("chksum_calc", family, "", None, data,
                         RequestRet(TRUE, "", chksum_calc(data)))
    /\ UNCHANGED codec_frame

LchksumCalc(family, lenid) ==
    /\ codec_call.op = "none"
    /\ codec_call' = CodecCall("lchksum_calc", family, "", None, lenid,
                         RequestRet(lchksum_calc(lenid) # ChecksumFailed, "",
                                    lchksum_calc(lenid)))
    /\ UNCHANGED codec_frame

CodecNext ==
    \/ \E family \in Families, command \in Commands, pack_number \in PackNumbers :
          GenerateBmsRequest(family, command, pack_number)
    \/ \E family \in Families, data \in FramePrefixes : ChksumCalc(family, data)
    \/ \E family \in Families, lenid \in Lenids \cup FramePrefixes :
          LchksumCalc(family, lenid)

\* the values of one byte
ByteValues == 0..255

\* interpret_warning(value) of PACEBMS and of TDTBMS232 on the same byte
InterpretWarning(value) ==
    /\ codec_call.op = "none"
    /\ codec_call' = CodecCall("interpret_warning", "", "", None, <<value>>,
                         RequestRet(TRUE, "", <<interpret_warning(value),
                                                tdt_interpret_warning(value)>>))
    /\ UNCHANGED codec_frame

\* the state bytes of a pack in the order parse_warnstate reads them
\* (pacebms.py:349-440, tdtbms_rs232.py:417-506)
StateNames == <<"protect_state_1", "protect_state_2", "instruction_state",
                "control_state", "fault_state", "balance_state_1",
                "balance_state_2", "warn_state_1", "warn_state_2">>
StateCount == 9

\* WARNSTATE bytes of two packs: the first without cells and sensors, with
\* normal scalar warnings and the state byte k set to value, the second with
\* one cell above its upper limit; without the last byte when truncated
WarnStateInput(k, value, truncated) ==
    LET first == <<0, 0, 0, 0, 0>> \o [i \in 1..StateCount |-> IF i = k THEN value ELSE 0]
        second == <<1, 2, 0, 0, 0, 0>> \o [i \in 1..StateCount |-> 0]
        all == <<2>> \o first \o second
    IN IF truncated THEN SubSeq(all, 1, Len(all) - 1) ELSE all

\* the first pack alone, as TDTBMS232 answers for one pack
TdtWarnStateInput(k, value, truncated) ==
    LET all == SubSeq(WarnStateInput(k, value, FALSE), 1, 6 + StateCount)
    IN IF truncated THEN SubSeq(all, 1, Len(all) - 1) ELSE all

\* PACEBMS.parse_warnstate, pacebms.py:300-444, on the bytes of WARNSTATE
parse_warnstate(bytes) ==
    LET packs == PaceWarnPacks(bytes, 2, bytes[1])
    IN RequestRet(packs.error = "", packs.error, packs.packs)

\* TDTBMS232.parse_warnstate, tdtbms_rs232.py:366-512
tdt_parse_warnstate(bytes) ==
    LET f == WarnFields(bytes, 2)
    IN IF f.error # "" THEN RequestRet(FALSE, f.error, <<>>)
       ELSE RequestRet(TRUE, "", <<TdtWarnPack(f)>>)

ParseWarnState(family, k, value, truncated) ==
    /\ codec_call.op = "none"
    /\ LET bytes == IF family = "TDT" THEN TdtWarnStateInput(k, value, truncated)
                    ELSE WarnStateInput(k, value, truncated)
       IN codec_call' = CodecCall("parse_warnstate", family, "", Some(k), bytes,
                                  IF family = "TDT" THEN tdt_parse_warnstate(bytes)
                                  ELSE parse_warnstate(bytes))
    /\ UNCHANGED codec_frame

\* byte sequences handed to calculate_crc16_modbus: every sequence of at most
\* MaxCrcLen sample bytes and the worked example of six bytes
MaxCrcLen == 3
CrcByteSamples == {0, 1, 18, 255}
CrcReference == <<1, 3, 18, 2, 0, 1>>
CrcInputs == UNION {[1..n -> CrcByteSamples] : n \in 0..MaxCrcLen} \cup {CrcReference}

\* the frame with one bit inverted: bit 0 is the lowest bit of the first byte
FlipBit(frame, bit) ==
    LET i == bit \div 8 + 1
        mask == 2 ^ (bit % 8)
    IN [frame EXCEPT ![i] = IF Bit(frame[i], mask) THEN frame[i] - mask ELSE frame[i] + mask]

\* jkbms_rs485.py:254-258: the CRC of the last two bytes, low byte first,
\* against the CRC of the bytes before them
CrcValid(response) ==
    UnpackLE16(response[Len(response) - 1], response[Len(response)])
        = calculate_crc16_modbus(Slice(response, 0, Len(response) - 2))

\* calculate_crc16_modbus(data), the frame data + CRC (low byte first) as the
\* builders of the commands form it (jkbms_rs485.py:212-213), and what the
\* receiving side computes for the frame after one bit of it was inverted
CalculateCrc16Modbus(data, bit) ==
    /\ codec_call.op = "none"
    /\ LET crc == calculate_crc16_modbus(data)
           frame == data \o <<crc % 256, crc \div 256>>
           flipped == FlipBit(frame, bit)
       IN codec_call' =
             CodecCall("calculate_crc16_modbus", modbus_class, "", Some(bit), data,
                       [ok |-> CrcValid(flipped),
                        error |-> parse_register_response(flipped).error,
                        request |-> <<crc, calculate_crc16_modbus(frame),
                                      calculate_crc16_modbus(Slice(flipped, 0, Len(data)))>>])
    /\ UNCHANGED codec_frame

CrcNext ==
    \E data \in CrcInputs : \E bit \in 0..(8 * (Len(data) + 2) - 1) :
        CalculateCrc16Modbus(data, bit)

WarnCodeNext ==
    \/ \E value \in ByteValues : InterpretWarning(value)
    \/ \E family \in {"PACE", "TDT"}, k \in 1..StateCount, value \in ByteValues, truncated \in BOOLEAN :
          ParseWarnState(family, k, value, truncated)

(***************************************************************************)
(* Poll cycle of JKBMS485: get_analog_data, jkbms_rs485.py:767-840, with   *)
(* auto_detect_slave_address (296-325), read_register_data (327-368), the  *)
(* getters (370-677) and parse_analog_data (679-765).                      *)
(* Telemetry is kept in the registers' integer units: currents in mA,      *)
(* voltages in mV, power in mW, capacities in mAh, temperatures in 0.1     *)
(* degC; the reported energies in 0.01 Wh.  A version string is the        *)
(* sequence of its character codes.                                        *)
(***************************************************************************)
MaxPolls == 2
\* telemetry reads that fail in one cycle, at most
MaxFailedReads == 1

\* time.time() at the poll cycles (s)
PollTimes == {100, 300}

\* the requests of one cycle in the order they are sent; the two first are the
\* reads of BatVol auto_detect_slave_address makes at addresses 0 and 1
Requests == <<"Detect0", "Detect1", "CellVol0",
              "TempBat1", "TempBat2", "TempBat3", "TempBat4", "TempBat5", "TempMos",
              "BatCurrent", "BatVol", "BatWatt",
              "BalanSOC", "SOCCapRemain", "SOCFullChargeCap", "SOCCycleCount", "SOCSOH",
              "BalanCurrent", "HardwareVersion", "SoftwareVersion">>
RequestNames == {Requests[i] : i \in 1..Len(Requests)}
DetectRequests == {"Detect0", "Detect1"}
TelemetryRequests == RequestNames \ DetectRequests
TempRequests == <<"TempBat1", "TempBat2", "TempBat3", "TempBat4", "TempBat5", "TempMos">>

\* get_cell_voltages(32), line 793
CellCount == 32

\* the registers the BMS holds, as it answers each request: two cells of 3300
\* and 3310 mV, 25.0 degC on sensors 1-4, 200.0 degC on sensor 5, -10.0 degC on
\* the power board, -1000 mA, 52000 mV, 1000000 mW, balancing on at 80 % SOC,
\* 80000 of 100000 mAh, 7 cycles, 99 % SOH, -100 mA balancing, versions
\* "V11A" and "11.2 "
DeviceRegisters(name) ==
    CASE name \in {"Detect0", "Detect1", "BatVol"} -> <<0, 52000>>
      [] name = "CellVol0" -> [i \in 1..CellCount |->
                                  IF i = 1 THEN 3300 ELSE IF i = 2 THEN 3310 ELSE 0]
      [] name \in {"TempBat1", "TempBat2", "TempBat3", "TempBat4"} -> <<250>>
      [] name = "TempBat5" -> <<2000>>
      [] name = "TempMos" -> <<65436>>
      [] name = "BatCurrent" -> <<65535, 64536>>
      [] name = "BatWatt" -> <<15, 16960>>
      [] name = "BalanSOC" -> <<336>>
      [] name = "SOCCapRemain" -> <<1, 14464>>
      [] name = "SOCFullChargeCap" -> <<1, 34464>>
      [] name = "SOCCycleCount" -> <<0, 7>>
      [] name = "SOCSOH" -> <<25344>>
      [] name = "BalanCurrent" -> <<65436>>
      [] name = "HardwareVersion" -> <<22065, 12609, 0, 0>>
      [] name = "SoftwareVersion" -> <<12593, 11826, 8192, 0>>
      \* charge MOS fault (bit 16), short circuit (bit 7), MOS temperature (bit 1)
      [] name = "AlarmSta" -> <<1, 130>>

\* what happens to a request: the send fails (line 350), nothing is received
\* (line 356), a response with a wrong CRC or a well-formed response arrives
FailureKinds == {"send_failed", "no_response", "bad_crc"}
\* ... or a Modbus exception response (function code 0x83) with a right CRC
ExceptionFunctionCode == 131
DetectFailureKinds == FailureKinds \cup {"wrong_function"}
ReadKinds == DetectFailureKinds \cup {"valid"}
\* the slave addresses requests are sent to: the candidates of the detection
\* and those set_slave_address accepts
SlaveAddresses == {0, 1} \cup {a \in SetAddressArguments : AddressAccepted("JKBMS485", a)}

\* the response received for a request sent to slave address addr
ResponseFrame(name, kind, addr) ==
    LET regs == DeviceRegisters(name)
        frame == MockResponse(addr,
                              IF kind = "wrong_function" THEN ExceptionFunctionCode
                              ELSE FUNCTION_CODE_READ_HOLDING_REGISTERS,
                              2 * Len(regs), regs)
    IN IF kind = "bad_crc"
       THEN ReplaceByte(frame, Len(frame), (frame[Len(frame)] + 1) % 256)
       ELSE frame

\* read_register_data, lines 327-368: the register values or None
read_register_data(name, kind, addr) ==
    IF kind \in {"send_failed", "no_response"} THEN None
    ELSE LET register_values == parse_register_response(ResponseFrame(name, kind, addr))
         IN IF register_values.ok THEN Some(register_values.values) ELSE None

\* read_register_data for every request, outcome and address of a cycle
ReadTable ==
    [name \in RequestNames |->
        [kind \in ReadKinds |->
            [addr \in SlaveAddresses |-> read_register_data(name, kind, addr)]]]

Signed16(v) == IF v >= 32768 THEN v - 65536 ELSE v
\* (values[0] << 16) | values[1], for values below 2^31
Unsigned32(values) == values[1] * 65536 + values[2]
\* the same with "if v & 0x80000000: v -= 0x100000000"
Signed32(values) == Signed16(values[1]) * 65536 + values[2]

\* "if register_values and len(register_values) >= n"
HasRegisters(register_values, n) ==
    register_values # None /\ Len(register_values[1]) >= n /\ Len(register_values[1]) > 0

RECURSIVE PositiveOnly(_, _)
PositiveOnly(values, i) ==
    IF i > Len(values) THEN <<>>
    ELSE (IF values[i] > 0 THEN <<values[i]>> ELSE <<>>) \o PositiveOnly(values, i + 1)

\* get_cell_voltages, lines 370-398
get_cell_voltages(register_values) ==
    IF register_values = None THEN None
    ELSE Some(PositiveOnly(register_values[1], 1))

\* get_temperatures, lines 585-620; reads[i] is the read of TempRequests[i]
RECURSIVE get_temperatures(_, _)
get_temperatures(reads, i) ==
    IF i > Len(reads) THEN <<>>
    ELSE (IF HasRegisters(reads[i], 1)
             /\ Signed16(reads[i][1][1]) >= -500 /\ Signed16(reads[i][1][1]) <= 1500
          THEN <<Signed16(reads[i][1][1])>> ELSE <<>>)
         \o get_temperatures(reads, i + 1)

\* get_battery_current, lines 425-453 (mA)
get_battery_current(register_values) ==
    IF HasRegisters(register_values, 2) THEN Some(Signed32(register_values[1])) ELSE None
\* get_battery_voltage, lines 400-423 (mV)
get_battery_voltage(register_values) ==
    IF HasRegisters(register_values, 2) THEN Some(Unsigned32(register_values[1])) ELSE None
\* get_battery_power, lines 455-478 (mW)
get_battery_power(register_values) ==
    IF HasRegisters(register_values, 2) THEN Some(Unsigned32(register_values[1])) ELSE None
\* get_balance_current, lines 480-508 (mA)
get_balance_current(register_values) ==
    IF HasRegisters(register_values, 1) THEN Some(Signed16(register_values[1][1])) ELSE None

\* get_soc_data, lines 622-677: a key the dictionary lacks is None
get_soc_data(balan_soc, remain_cap, full_cap, cycle, soh) ==
    [view_SOC |-> IF HasRegisters(balan_soc, 1)
                  THEN Some(balan_soc[1][1] % 256) ELSE None,
     balance_state |-> IF HasRegisters(balan_soc, 1)
                       THEN Some((balan_soc[1][1] \div 256) % 256) ELSE None,
     view_remain_capacity |-> IF HasRegisters(remain_cap, 2)
                              THEN Some(Signed32(remain_cap[1])) ELSE None,
     view_full_capacity |-> IF HasRegisters(full_cap, 2)
                            THEN Some(Unsigned32(full_cap[1])) ELSE None,
     view_cycle_number |-> IF HasRegisters(cycle, 2)
                           THEN Some(Unsigned32(cycle[1])) ELSE None,
     view_SOH |-> IF HasRegisters(soh, 1)
                  THEN Some((soh[1][1] \div 256) % 256) ELSE None]

\* "Unknown"
Unknown == <<85, 110, 107, 110, 111, 119, 110>>

\* struct.pack('>H', value) of each register
RECURSIVE VersionBytes(_, _)
VersionBytes(values, i) ==
    IF i > Len(values) THEN <<>> ELSE PackBE16(values[i]) \o VersionBytes(values, i + 1)
\* decode('ascii', errors='ignore') and "if char.isprintable()"
RECURSIVE Printable(_, _)
Printable(bytes, i) ==
    IF i > Len(bytes) THEN <<>>
    ELSE (IF bytes[i] >= 32 /\ bytes[i] <= 126 THEN <<bytes[i]>> ELSE <<>>)
         \o Printable(bytes, i + 1)
\* strip()
RECURSIVE Strip(_)
Strip(str) ==
    IF str = <<>> THEN str
    ELSE IF Head(str) = 32 THEN Strip(Tail(str))
    ELSE IF str[Len(str)] = 32 THEN Strip(SubSeq(str, 1, Len(str) - 1))
    ELSE str
\* lines 521-547 and 550-576
VersionString(register_values) ==
    IF ~HasRegisters(register_values, 4) THEN None
    ELSE LET version == Strip(Printable(VersionBytes(register_values[1], 1), 1))
         IN Some(IF version = <<>> THEN Unknown ELSE version)
\* get_version_info, lines 510-583
get_version_info(hw, sw) ==
    [hardware_version |-> VersionString(hw), software_version |-> VersionString(sw)]

\* list.index(value) + 1
IndexOf(values, v) == CHOOSE i \in 1..Len(values) :
                         values[i] = v /\ \A j \in 1..(i - 1) : values[j] # v

\* round(total, 2) of a total in Wh, in 0.01 Wh
RoundWh(total_ws) == (total_ws * 100 + (WsPerWh \div 2)) \div WsPerWh

\* the power handed to calculate_cumulative_energy, in W (the power register
\* of the model holds whole watts)
PowerW(power_mw) == power_mw \div 1000

\* raw_data as get_analog_data collects it, lines 790-830; read[name] is the
\* value read_register_data returned for the request
RawData(read) ==
    LET cell_voltages == get_cell_voltages(read["CellVol0"])
        temperatures == get_temperatures(
                            [i \in 1..Len(TempRequests) |-> read[TempRequests[i]]], 1)
    IN [cell_voltages |-> OrDefault(cell_voltages, <<>>),
        temperatures |-> temperatures,
        current |-> OrDefault(get_battery_current(read["BatCurrent"]), 0),
        voltage |-> OrDefault(get_battery_voltage(read["BatVol"]), 0),
        power |-> OrDefault(get_battery_power(read["BatWatt"]), 0),
        soc_data |-> get_soc_data(read["BalanSOC"], read["SOCCapRemain"],
                                  read["SOCFullChargeCap"], read["SOCCycleCount"],
                                  read["SOCSOH"]),
        balance_current |-> OrDefault(get_balance_current(read["BalanCurrent"]), 0),
        version_info |-> get_version_info(read["HardwareVersion"],
                                          read["SoftwareVersion"])]

\* JKBMS485.parse_analog_data, lines 679-765, given the totals
\* calculate_cumulative_energy returned
PackData(raw_data, charged_total, discharged_total) ==
    LET cell_voltages == raw_data.cell_voltages
        has_cells == cell_voltages # <<>>
        cell_voltage_max == IF has_cells THEN MaxOf(cell_voltages, 1) ELSE 0
        cell_voltage_min == IF has_cells THEN MinOf(cell_voltages, 1) ELSE 0
    IN [cell_voltages |-> cell_voltages,
        view_num_cells |-> Len(cell_voltages),
        cell_voltage_max |-> cell_voltage_max,
        cell_voltage_min |-> cell_voltage_min,
        cell_voltage_max_index |->
            IF has_cells THEN IndexOf(cell_voltages, cell_voltage_max) ELSE 0,
        cell_voltage_min_index |->
            IF has_cells THEN IndexOf(cell_voltages, cell_voltage_min) ELSE 0,
        cell_voltage_diff |-> cell_voltage_max - cell_voltage_min,
        temperatures |-> raw_data.temperatures,
        view_num_temps |-> Len(raw_data.temperatures),
        view_current |-> raw_data.current,
        view_voltage |-> raw_data.voltage,
        view_power |-> raw_data.power,
        view_energy_charged |-> RoundWh(charged_total),
        view_energy_discharged |-> RoundWh(discharged_total),
        view_remain_capacity |-> OrDefault(raw_data.soc_data.view_remain_capacity, 0),
        view_full_capacity |-> OrDefault(raw_data.soc_data.view_full_capacity, 0),
        view_cycle_number |-> OrDefault(raw_data.soc_data.view_cycle_number, 0),
        view_SOC |-> OrDefault(raw_data.soc_data.view_SOC, 0),
        view_SOH |-> OrDefault(raw_data.soc_data.view_SOH, 0),
        view_design_capacity |-> OrDefault(raw_data.soc_data.view_full_capacity, 0),
        view_balance_current |-> raw_data.balance_current,
        hardware_version |-> OrDefault(raw_data.version_info.hardware_version, <<>>),
        software_version |-> OrDefault(raw_data.version_info.software_version, <<>>)]

\* the sets of at most k telemetry requests
RECURSIVE FailedSets(_)
FailedSets(k) ==
    IF k = 0 THEN {{}}
    ELSE LET fewer == FailedSets(k - 1)
         IN fewer \cup {f \cup {name} : f \in fewer, name \in TelemetryRequests}
\* the requests that fail in a cycle: any of the detection reads and at most
\* MaxFailedReads of the telemetry reads
FailedReadSets ==
    {d \cup f : d \in SUBSET DetectRequests, f \in FailedSets(MaxFailedReads)}

\* a variant of the detection that lets the last answering candidate win
DetectedAddressLastWins(detect0, detect1) ==
    IF detect1 # None THEN Some(1)
    ELSE IF detect0 # None THEN Some(0)
    ELSE None

\* auto_detect_slave_address, lines 305-321: the address returned, given what
\* the probes of the candidates 0 and 1 read
DetectedAddress(detect0, detect1) ==
    IF detect0 # None THEN Some(0)
    ELSE IF detect1 # None THEN Some(1)
    ELSE None

\* line 320: self.default_slave_address = 0x00
RestoredAddress == 0

Request(name, addr) == [name |-> name, addr |-> addr]

\* the requests of Requests from the i-th on that are in sent, in order; a
\* probe of candidate c goes to address c, a telemetry read to address
RECURSIVE RequestsSent(_, _, _)
RequestsSent(sent, address, i) ==
    IF i > Len(Requests) THEN <<>>
    ELSE (IF Requests[i] \notin sent THEN <<>>
          ELSE IF Requests[i] = "Detect0" THEN <<Request("Detect0", 0)>>
          ELSE IF Requests[i] = "Detect1" THEN <<Request("Detect1", 1)>>
          ELSE <<Request(Requests[i], address)>>)
         \o RequestsSent(sent, address, i + 1)

PollCall(op, now, sent, failed, ret, requests, detected_before, address_before, address_after) ==
    [op |-> op, now |-> now, sent |-> sent, failed |-> failed, ret |-> ret,
     requests |-> requests, detected_before |-> detected_before,
     address_before |-> address_before, address_after |-> address_after]

PollInit ==
    /\ address_detected = FALSE
    /\ poll_call = PollCall("none", 0, {}, {}, None, <<>>, FALSE, 0, 0)
    /\ n_polls = 0

\* get_analog_data when the requests in failing fail as failure says and
\* time.time() returns now
\* lines 781-832: the reads of one get_analog_data call and what they return,
\* given the address state the call starts from
AnalogReads(failing, failure, detected, slave_address) ==
    LET outcome(name) == IF name \in failing THEN failure ELSE "valid"
        \* lines 781-787 and auto_detect_slave_address
        detect0 == ReadTable["Detect0"][outcome("Detect0")][0]
        detect1 == ReadTable["Detect1"][outcome("Detect1")][1]
        detected_address == DetectedAddress(detect0, detect1)
        address == IF detected THEN slave_address
                   ELSE OrDefault(detected_address, RestoredAddress)
        sent == TelemetryRequests
                   \cup (IF detected THEN {}
                         ELSE IF detect0 # None THEN {"Detect0"}
                         ELSE DetectRequests)
        read == [name \in RequestNames |-> ReadTable[name][outcome(name)][address]]
    IN [detected_address |-> detected_address, address |-> address, sent |-> sent,
        raw_data |-> RawData(read), requests |-> RequestsSent(sent, address, 1)]

\* lines 777-836: what the call does with the reads
GetAnalogDataWith(reads, failing, now) ==
    /\ modbus_class = "JKBMS485"
    /\ n_polls < MaxPolls
    /\ n_polls' = n_polls + 1
    /\ failing \subseteq reads.sent    \* only a request that is sent can fail
    /\ default_slave_address' = reads.address
    /\ address_detected' = (address_detected \/ reads.detected_address # None)
    /\ CumulativeEnergyStep(Some(PowerW(reads.raw_data.power)), now)
    /\ poll_call' = PollCall("get_analog_data", now, reads.sent, failing,
                          Some(<<PackData(reads.raw_data, total_energy_charged',
                                          total_energy_discharged')>>),
                          reads.requests, address_detected,
                          default_slave_address, reads.address)

GetAnalogDataCall(failing, failure, now) ==
    GetAnalogDataWith(AnalogReads(failing, failure, address_detected, default_slave_address), failing, now)

GetAnalogData(failing, failure, now) ==
    GetAnalogDataCall(failing, failure, now) /\ UNCHANGED poll_frame

PollNext ==
    \E failing \in FailedReadSets, failure \in FailureKinds, now \in PollTimes :
        GetAnalogData(failing, failure, now)

\* the first poll cycles of a session in which the caller may choose a slave
\* address: the probes of the detection fail or not, every telemetry read is
\* answered
(***************************************************************************)
(* The operations of JKBMS485 next to the accumulator: read_register_data, *)
(* auto_detect_slave_address and get_warning_data called on their own      *)
(***************************************************************************)
\* the inputs of the operations next to the accumulator
AccumulatorTimes == {0, 100, 400}
AccumulatorPowers == {Some(-1000), Some(500)}
AccumulatorAddresses == {1, 248}
AccumulatorRegisters == {"BatVol", "NoSuchRegister"}
AccumulatorKinds == {"valid", "no_response"}

\* the registers get_warning_data asks for: the alarm status, the cells and
\* the temperature sensors
WarningRequests == {"AlarmSta", "CellVol0"} \cup {TempRequests[i] : i \in 1..Len(TempRequests)}

\* read_register_data for every register, outcome and address of these
\* operations
AccumulatorReadTable ==
    [name \in WarningRequests \cup (AccumulatorRegisters \cap RequestNames) |->
        [kind \in AccumulatorKinds |->
            [addr \in SlaveAddresses |-> read_register_data(name, kind, addr)]]]

\* JKBMS485.read_register_data(name), jkbms_rs485.py:327-368, at the stored
\* slave address
ReadRegisterData(name, kind) ==
    /\ modbus_class = "JKBMS485"
    /\ LET known == name \in RequestNames
           ret == IF known THEN AccumulatorReadTable[name][kind][default_slave_address]
                  ELSE None
       IN poll_call' = PollCall("read_register_data", 0,
                                IF known THEN {name} ELSE {},
                                IF known /\ kind # "valid" THEN {name} ELSE {},
                                ret,
                                IF known THEN <<Request(name, default_slave_address)>>
                                ELSE <<>>,
                                address_detected, default_slave_address,
                                default_slave_address)
    /\ UNCHANGED <<energy_vars, default_slave_address, address_detected, n_polls, poll_frame>>

\* JKBMS485.auto_detect_slave_address, jkbms_rs485.py:296-325
AutoDetectSlaveAddress(kind0, kind1) ==
    /\ modbus_class = "JKBMS485"
    /\ LET detect0 == ReadTable["Detect0"][kind0][0]
           detect1 == ReadTable["Detect1"][kind1][1]
           detected_address == DetectedAddress(detect0, detect1)
           sent == IF detect0 # None THEN {"Detect0"} ELSE DetectRequests
       IN /\ default_slave_address' = OrDefault(detected_address, RestoredAddress)
          /\ poll_call' = PollCall("auto_detect_slave_address", 0, sent,
                                   {n \in sent : (n = "Detect0" /\ detect0 = None)
                                                 \/ (n = "Detect1" /\ detect1 = None)},
                                   detected_address, RequestsSent(sent, 0, 1),
                                   address_detected, default_slave_address,
                                   default_slave_address')
    /\ UNCHANGED <<energy_vars, address_detected, n_polls, poll_frame>>

BitAt(status, n) == Bit(status, 2 ^ n)

\* jkbms_rs485.py:859-919: the record of the pack
JkWarningPack(alarm_values, cell_number, temp_sensor_number) ==
    LET decoded == HasRegisters(alarm_values, 2)
        alarm_status == IF decoded THEN Unsigned32(alarm_values[1]) ELSE 0
    IN [cell_number |-> cell_number,
        cell_voltage_warnings |-> [i \in 1..cell_number |-> "normal"],
        temp_sensor_number |-> temp_sensor_number,
        temp_sensor_warnings |-> [i \in 1..temp_sensor_number |-> "normal"],
        warn_charge_current |-> "normal",
        warn_total_voltage |-> "normal",
        warn_discharge_current |-> "normal",
        protect_state_1 |->
           IF ~decoded THEN <<>>
           ELSE [protect_short_circuit |-> BitAt(alarm_status, 7),
                 protect_high_discharge_current |-> BitAt(alarm_status, 13),
                 protect_high_charge_current |-> BitAt(alarm_status, 6),
                 protect_low_total_voltage |-> BitAt(alarm_status, 12),
                 protect_high_total_voltage |-> BitAt(alarm_status, 5),
                 protect_low_cell_voltage |-> BitAt(alarm_status, 11),
                 protect_high_cell_voltage |-> BitAt(alarm_status, 4)],
        protect_state_2 |->
           IF ~decoded THEN <<>>
           ELSE [status_fully_charged |-> FALSE,
                 protect_low_env_temp |-> BitAt(alarm_status, 9),
                 protect_high_env_temp |-> BitAt(alarm_status, 8),
                 protect_high_MOS_temp |-> BitAt(alarm_status, 1),
                 protect_low_discharge_temp |-> BitAt(alarm_status, 15),
                 protect_low_charge_temp |-> BitAt(alarm_status, 9),
                 protect_high_discharge_temp |-> BitAt(alarm_status, 15),
                 protect_high_charge_temp |-> BitAt(alarm_status, 8)],
        instruction_state |-> <<>>,
        control_state |-> <<>>,
        fault_state |->
           IF ~decoded THEN <<>>
           ELSE [fault_sampling |-> BitAt(alarm_status, 3),
                 fault_cell |-> BitAt(alarm_status, 2),
                 fault_NTC |-> FALSE,
                 fault_discharge_MOS |-> BitAt(alarm_status, 17),
                 fault_charge_MOS |-> BitAt(alarm_status, 16)],
        balance_state_1 |-> 0,
        balance_state_2 |-> 0,
        warn_state_1 |-> <<>>,
        warn_state_2 |-> <<>>]

\* JKBMS485.get_warning_data, jkbms_rs485.py:842-927, when the reads of
\* failing end in failure
GetWarningDataCall(failing, failure) ==
    /\ modbus_class = "JKBMS485"
    /\ LET read(name) == AccumulatorReadTable[name][IF name \in failing THEN failure
                                                     ELSE "valid"][default_slave_address]
           cells == OrDefault(get_cell_voltages(read("CellVol0")), <<>>)
           temps == get_temperatures([i \in 1..Len(TempRequests) |-> read(TempRequests[i])], 1)
       IN poll_call' = PollCall("get_warning_data", 0, WarningRequests, failing,
                                Some(<<JkWarningPack(read("AlarmSta"), Len(cells), Len(temps))>>),
                                <<>>, address_detected, default_slave_address,
                                default_slave_address)
    /\ UNCHANGED <<energy_vars, default_slave_address, address_detected, n_polls>>

GetWarningData(failing, failure) ==
    GetWarningDataCall(failing, failure) /\ UNCHANGED poll_frame

AccumulatorNext ==
    \/ \E p \in AccumulatorPowers, t \in AccumulatorTimes : CalculateCumulativeEnergy(p, t)
    \/ ResetCumulativeEnergy
    \/ \E address \in AccumulatorAddresses : SetSlaveAddress(address)
    \/ \E name \in AccumulatorRegisters, kind \in AccumulatorKinds : ReadRegisterData(name, kind)
    \/ \E kind0, kind1 \in {"valid", "bad_crc"} : AutoDetectSlaveAddress(kind0, kind1)
    \/ \E failing \in {{}, {"AlarmSta"}} : GetWarningData(failing, "no_response")

DetectNext ==
    \/ \E address \in SetAddressArguments : SetSlaveAddress(address)
    \/ \E failing \in SUBSET DetectRequests, failure \in DetectFailureKinds,
          now \in PollTimes :
          GetAnalogData(failing, failure, now)

(***************************************************************************)
(* Fleet aggregation: the totals publish_analog_data_mqtt publishes before *)
(* the per-pack values, up to the fleet SOC (jkbms_rs485.py:1088-1111,     *)
(* tdtbms_rs232.py:1060-1084, pacebms.py:785-805).  Capacities are in      *)
(* 0.01 Ah and currents in 0.01 A, those of JKBMS485 in mAh and mA; the    *)
(* published totals are in 0.01 Ah and 0.01 A, the SOC in 0.1 %.           *)
(***************************************************************************)
MaxFleetPacks == 2

\* the keys of a pack the totals are summed from
FleetPack(remain, full, current) ==
    [remain_capacity |-> remain, full_capacity |-> full, current |-> current]

RECURSIVE SumKey(_, _, _)
\* sum(d.get(key, 0) for d in analog_data), from position i
SumKey(analog_data, key, i) ==
    IF i > Len(analog_data) THEN 0
    ELSE analog_data[i][key] + SumKey(analog_data, key, i + 1)

\* round(sum, 2) in the published unit: the values of JKBMS485 carry three
\* decimals (jkbms_rs485.py:650-656), those of the ASCII family two
RoundTotal(family, sum) == IF family = "JKBMS485" THEN RoundDiv(sum, 10) ELSE sum

\* round(total_remain_capacity / total_full_capacity * 100, 1), in 0.1 %
FleetSoc(total_remain, total_full) == RoundDiv(total_remain * 1000, total_full)

\* the name a total is published under: pacebms.py:788-804 against
\* tdtbms_rs232.py:1067-1083 and jkbms_rs485.py:1094-1110
TotalName(family, total) ==
    IF family # "PACEBMS" THEN total
    ELSE IF total = "total_full_capacity" THEN "total_pack_full_capacity"
    ELSE IF total = "total_remain_capacity" THEN "total_pack_remain_capacity"
    ELSE IF total = "total_current" THEN "total_pack_current"
    ELSE IF total = "total_SOC" THEN "total_soc"
    ELSE total

\* what the aggregation did: the exception that ended it ("" for none) and
\* the states it published, in order
FleetRet(error, published) == [error |-> error, published |-> published]

\* the totals of publish_analog_data_mqtt for the analog data collected:
\* analog_data is None or Some(list of packs)
FleetTotals(family, analog_data) ==
    IF analog_data = None
    THEN \* pacebms.py:787: len(None)
         FleetRet("TypeError", <<>>)
    ELSE
    LET packs == analog_data[1]
        total_packs_num == Len(packs)
    IN IF family # "PACEBMS" /\ total_packs_num < 1
       THEN \* jkbms_rs485.py:1089-1091, tdtbms_rs232.py:1062-1064: return None
            FleetRet("", <<>>)
       ELSE
    LET total_full_capacity == RoundTotal(family, SumKey(packs, "full_capacity", 1))
        total_remain_capacity == RoundTotal(family, SumKey(packs, "remain_capacity", 1))
        total_current == RoundTotal(family, SumKey(packs, "current", 1))
        before_soc == << <<TotalName(family, "total_packs_num"), total_packs_num>>,
                         <<TotalName(family, "total_full_capacity"), total_full_capacity>>,
                         <<TotalName(family, "total_remain_capacity"), total_remain_capacity>>,
                         <<TotalName(family, "total_current"), total_current>> >>
    IN IF family = "JKBMS485"
       THEN \* jkbms_rs485.py:1109: ... if total_full_capacity > 0 else 0
            FleetRet("", Append(before_soc,
                <<"total_SOC", IF total_full_capacity > 0
                               THEN FleetSoc(total_remain_capacity, total_full_capacity)
                               ELSE 0>>))
       ELSE \* tdtbms_rs232.py:1082, pacebms.py:803: the division is not guarded
            IF total_full_capacity = 0 THEN FleetRet("ZeroDivisionError", before_soc)
            ELSE FleetRet("", Append(before_soc,
                <<TotalName(family, "total_SOC"),
                  FleetSoc(total_remain_capacity, total_full_capacity)>>))

\* remaining and full capacity of a pack (0.01 Ah; mAh for JKBMS485), and
\* its current
CapacitySamples(family) ==
    IF family = "JKBMS485"
    THEN {<<50000, 100000>>, <<0, 0>>, <<33335, 100004>>, <<100000, 100000>>}
    ELSE {<<5000, 10000>>, <<0, 0>>, <<3333, 10000>>, <<10000, 10000>>}
\* PACEBMS.parse_analog_data returns no negative current (pacebms.py:207-209)
CurrentSamples(family) == IF family = "PACEBMS" THEN {65036, 100} ELSE {-500, 100}

\* the packs get_analog_data can return: TDTBMS232.parse_analog_data raises
\* on a full capacity of 0 (tdtbms_rs232.py:285), so that no such pack is
\* collected
FleetPacks(family) ==
    {FleetPack(c[1], c[2], i) : c \in {x \in CapacitySamples(family) :
                                          family = "TDTBMS232" => x[2] # 0},
                                i \in CurrentSamples(family)}

\* the analog data the aggregation starts from: one pack for JKBMS485
\* (jkbms_rs485.py:758, and not None, lines 1083-1086), the packs decoded in
\* the cycle for TDTBMS232 (tdtbms_rs232.py:1043-1057), what get_analog_data
\* returned for PACEBMS (pacebms.py:785)
FleetInputs(family) ==
    IF family = "JKBMS485" THEN {Some(<<pk>>) : pk \in FleetPacks(family)}
    ELSE {Some(packs) : packs \in UNION {[1..n -> FleetPacks(family)] :
                                            n \in 0..MaxFleetPacks}}
         \cup (IF family = "PACEBMS" THEN {None} ELSE {})

FleetFamilies == {"JKBMS485", "TDTBMS232", "PACEBMS"}

FleetCall(op, family, analog_data, ret) ==
    [op |-> op, family |-> family, analog_data |-> analog_data, ret |-> ret]

FleetIdle == fleet_call = FleetCall("none", "", None, FleetRet("", <<>>))

\* the totals of one publish_analog_data_mqtt call
PublishFleetTotals(family, analog_data) ==
    /\ fleet_call' = FleetCall("publish_analog_data_mqtt", family, analog_data,
                               FleetTotals(family, analog_data))
    /\ UNCHANGED fleet_frame

FleetNext ==
    \E family \in FleetFamilies : \E analog_data \in FleetInputs(family) :
        PublishFleetTotals(family, analog_data)

(***************************************************************************)
(* Requests and responses on the transport.  Every get / read call sends   *)
(* its request with bms_comm.send_data and, when that returned True, reads *)
(* the response with bms_comm.receive_data (jkbms_rs485.py:327-368,        *)
(* tdtbms_rs232.py:680-745, pacebms.py:568-591); the two calls are the     *)
(* steps of the model.  One BMS class uses the transport, in one thread.   *)
(* TDTBMS232 is driven by its publish cycle with the retry loop of         *)
(* tdtbms_rs232.py:1043-1064 and 1157-1178.                                *)
(***************************************************************************)
\* tdtbms_rs232.py:1046 and 1161
max_retries == 3
MaxCyclePacks == 2
\* get / read calls made outside a publish cycle
MaxIoCalls == 2

\* pack_list of a publish cycle: the packs 1..n
CyclePackLists == {[i \in 1..n |-> i] : n \in 0..MaxCyclePacks}

\* a response of TDTBMS232 for one pack: the pack number after INFOFLAG
TdtResponse(rtn, pack_number, pack_info) ==
    LET info == <<"0", "0">> \o Hex2(pack_number) \o pack_info
        lenid == Hex3(Len(info))
        request == <<"~", "2", "5">> \o Hex2(pack_number) \o <<"4", "6">> \o rtn
                      \o lchksum_calc(lenid) \o lenid \o info
    IN request \o chksum_calc(request)

\* the pack the BMS reports in a cycle
CyclePack == [cells |-> <<3300>>, temps |-> <<2931>>,
              scalars |-> <<65531, 52000, 5000, 3, 10000, 7, 10000>>]
CycleWarnPack == [cells |-> <<2>>, temps |-> <<0>>,
                  states |-> <<1, 2, 0, 64, 128, 38, 1, 32, 3, 0, 33, 129>>]

\* what receive_data returns for a request: nothing, the response for the
\* pack, the response of another pack, or a response with return code '02'
ResponseKinds == {"none", "valid", "other_pack", "error_code"}

TdtReceived(kind, pack_number, rk) ==
    IF rk = "none" THEN None
    ELSE LET info == IF kind = "analog" THEN PackInfo(CyclePack)
                     ELSE WarnPackInfo(CycleWarnPack)
         IN Some(TdtResponse(IF rk = "error_code" THEN <<"0", "2">> ELSE <<"0", "0">>,
                             IF rk = "other_pack" THEN pack_number + 1 ELSE pack_number,
                             info))

\* tdtbms_rs232.py:696-709 and 729-745: what get_analog_data / get_warning_data
\* return for the response received
TdtGetResult(kind, response, pack_number) ==
    IF response = None THEN None
    ELSE LET ret == IF kind = "analog"
                    THEN tdt_parse_analog_data(response[1], Some(pack_number))
                    ELSE tdt_parse_warning_data(response[1], Some(pack_number))
         IN IF ret.ok THEN Some(ret.packs[1]) ELSE None

\* TdtGetResult for every kind of cycle, pack and response
TdtGetTable ==
    [kind \in {"analog", "warning"} |->
        [pack_number \in 1..MaxCyclePacks |->
            [rk \in ResponseKinds |->
                TdtGetResult(kind, TdtReceived(kind, pack_number, rk), pack_number)]]]

\* pacebms.py:579-591: what PACEBMS.get_analog_data returns
PaceReceived(rk) ==
    IF rk = "none" THEN None
    ELSE IF rk = "error_code"
    THEN Some([AnalogResponse(<<CyclePack>>) EXCEPT ![8] = "0", ![9] = "2"])
    ELSE Some(AnalogResponse(<<CyclePack>>))
PaceGetResult(response) ==
    IF response = None THEN None
    ELSE LET ret == parse_analog_data(response[1])
         IN IF ret.ok THEN Some(ret.packs) ELSE None

\* jkbms_rs485.py:355-364: what read_register_data returns
JkReceived(name, rk, addr) ==
    IF rk = "none" THEN None
    ELSE Some(ResponseFrame(name, IF rk = "error_code" THEN "wrong_function" ELSE "valid",
                            addr))
JkReadResult(response) ==
    IF response = None THEN None
    ELSE LET register_values == parse_register_response(response[1])
         IN IF register_values.ok THEN Some(register_values.values) ELSE None
\* register names read_register_data is called with: two of REGISTER_ADDRESSES
\* and one that is not
IoRegisterNames == {"BatVol", "TempMos", "NoSuchRegister"}

\* the entries of the log
SendEvent(n, ok) == [ev |-> "send", call |-> n, ok |-> ok]
ReceiveEvent(n) == [ev |-> "receive", call |-> n]

\* the call in progress: n counts the calls, pc is "sent" between a send_data
\* that returned True and the receive_data that follows
IoCall(n, fn, arg, pc, ret) == [n |-> n, fn |-> fn, arg |-> arg, pc |-> pc, ret |-> ret]

\* the position of a call that reads the response whatever send_data returned
ReceiveAfterAnySend(ok) == "sent"
\* "if not self.bms_comm.send_data(request): return None": the position of the
\* call after send_data returned ok
AfterSend(ok) == IF ok THEN "sent" ELSE "idle"

Attempt(pack_number, ok) == [pack_number |-> pack_number, ok |-> ok]

PublishCycle(state, kind, pack_list, index, retry_count, data, collected, attempts, result) ==
    [state |-> state, kind |-> kind, pack_list |-> pack_list, index |-> index,
     retry_count |-> retry_count, data |-> data, collected |-> collected,
     attempts |-> attempts, result |-> result]

\* the keys of a decoded pack the fleet totals are summed from
RECURSIVE FleetPacksOf(_, _)
FleetPacksOf(data, i) ==
    IF i > Len(data) THEN <<>>
    ELSE <<FleetPack(data[i].view_remain_capacity, data[i].view_full_capacity,
                     data[i].view_current)>> \o FleetPacksOf(data, i + 1)

\* tdtbms_rs232.py:1133-1145 and 1186-1198: the entries of the lists of a
\* record, each published under its own 1-based index
ListKeys(kind) ==
    IF kind = "analog" THEN {"cell_voltages", "temperatures"}
    ELSE {"cell_voltage_warnings", "temp_sensor_warnings"}

\* tdtbms_rs232.py:1126-1152 and 1180-1236: pack_i counts the records that
\* were collected; what is published under pack_<pack_i>_ is the record at
\* place pack_i of analog_data / warn_data (pack_number: the pack it was
\* asked from, kept for the claims)
PublishedPacks(c) ==
    [pack_i \in 1..Len(c.data) |->
        [pack_i |-> pack_i,
         pack_number |-> c.collected[pack_i],
         telemetry |-> c.data[pack_i],
         entries |-> UNION {{[key |-> key, index |-> i, value |-> c.data[pack_i][key][i]] :
                                i \in 1..Len(c.data[pack_i][key])} : key \in ListKeys(c.kind)}]]

\* tdtbms_rs232.py:1060-1152 and 1174-1236: after the loop over pack_list the
\* totals are published and then the packs, unless the totals raised or no
\* pack was collected
FinishCycle(c) ==
    LET totals == IF Len(c.data) < 1 THEN FleetRet("", <<>>)
                  ELSE IF c.kind = "analog"
                  THEN FleetTotals("TDTBMS232", Some(FleetPacksOf(c.data, 1)))
                  ELSE FleetRet("", <<<<"total_packs_num", Len(c.data)>>>>)
    IN [c EXCEPT !.state = "done",
                 !.result = [error |-> totals.error, published |-> totals.published,
                             packs |-> IF totals.error # "" THEN <<>>
                                       ELSE PublishedPacks(c)]]

\* the next pack_number of "for pack_number in pack_list", or the end
NextPack(c) ==
    IF c.index + 1 > Len(c.pack_list) THEN FinishCycle([c EXCEPT !.index = c.index + 1])
    ELSE [c EXCEPT !.index = c.index + 1, !.retry_count = 0]

\* the loop without its break: a decoded pack is recorded and counted as one
\* more try
NoBreakOnSuccess(c, single) ==
    LET tried == [c EXCEPT !.attempts = Append(c.attempts,
                                Attempt(c.pack_list[c.index], single # None)),
                           !.retry_count = c.retry_count + 1,
                           !.data = IF single # None THEN Append(c.data, single[1])
                                    ELSE c.data,
                           !.collected = IF single # None
                                         THEN Append(c.collected, c.pack_list[c.index])
                                         ELSE c.collected]
    IN IF tried.retry_count < max_retries THEN tried ELSE NextPack(tried)

\* tdtbms_rs232.py:1047-1057 and 1162-1172: the loop after get_analog_data /
\* get_warning_data returned single
AfterAttempt(c, single) ==
    LET tried == [c EXCEPT !.attempts = Append(c.attempts,
                                Attempt(c.pack_list[c.index], single # None))]
    IN IF single # None
       THEN NextPack([tried EXCEPT !.data = Append(c.data, single[1]),
                                   !.collected = Append(c.collected,
                                                        c.pack_list[c.index])])
       ELSE LET failed == [tried EXCEPT !.retry_count = c.retry_count + 1]
            IN IF failed.retry_count < max_retries THEN failed ELSE NextPack(failed)

IoIdle ==
    /\ io_family = "none"
    /\ publish_cycle = PublishCycle("idle", "none", <<>>, 0, 0, <<>>, <<>>, <<>>,
                                    FleetRet("", <<>>))
    /\ io_call = IoCall(0, "none", None, "idle", None)
    /\ transport_log = <<>>

\* TDTBMS232.publish_analog_data_mqtt(pack_list) / publish_warning_data_mqtt
\* (pack_list) is entered
StartCycle(kind, pack_list) ==
    /\ io_family = "none"
    /\ publish_cycle.state = "idle"
    /\ io_family' = "TDTBMS232"
    /\ publish_cycle' =
          LET c == PublishCycle("running", kind, pack_list, 1, 0, <<>>, <<>>, <<>>,
                                FleetRet("", <<>>))
          IN IF pack_list = <<>> THEN FinishCycle(c) ELSE c
    /\ UNCHANGED <<io_call, transport_log, io_frame>>

\* tdtbms_rs232.py:685-691 and 718-724: the request of the loop's next attempt
\* is sent
TdtSend(ok) ==
    /\ publish_cycle.state = "running"
    /\ io_call.pc = "idle"
    /\ LET pack_number == publish_cycle.pack_list[publish_cycle.index]
           n == io_call.n + 1
           fn == IF publish_cycle.kind = "analog" THEN "get_analog_data"
                 ELSE "get_warning_data"
       IN /\ transport_log' = Append(transport_log, SendEvent(n, ok))
          /\ IF AfterSend(ok) = "sent"
             THEN /\ io_call' = IoCall(n, fn, Some(pack_number), "sent", None)
                  /\ UNCHANGED publish_cycle
             ELSE /\ io_call' = IoCall(n, fn, Some(pack_number), "idle", None)
                  /\ publish_cycle' = AfterAttempt(publish_cycle, None)
    /\ UNCHANGED <<io_family, io_frame>>

\* tdtbms_rs232.py:696-709 and 729-745: the response is read and decoded, and
\* the loop goes on
TdtReceive(rk) ==
    /\ publish_cycle.state = "running"
    /\ io_call.pc = "sent"
    /\ LET pack_number == publish_cycle.pack_list[publish_cycle.index]
           single == TdtGetTable[publish_cycle.kind][pack_number][rk]
       IN /\ transport_log' = Append(transport_log, ReceiveEvent(io_call.n))
          /\ io_call' = [io_call EXCEPT !.pc = "idle", !.ret = single]
          /\ publish_cycle' = AfterAttempt(publish_cycle, single)
    /\ UNCHANGED <<io_family, io_frame>>

\* the command get_analog_data asks for and the one get_time_date_data asks
\* for (pacebms.py:572, 657), the second absent from the command table
PaceCommands == {"analog", "time_date"}
PaceGetter(command) == IF command = "analog" THEN "get_analog_data" ELSE "get_time_date_data"

\* a get_* of PACEBMS, pacebms.py:568-577 and 653-661: the request is built
\* inside the try block, an exception of generate_bms_request ends the call
\* with None, otherwise the request is sent
PaceSend(command, pack_number, ok) ==
    /\ io_family \in {"none", "PACEBMS"}
    /\ io_call.pc = "idle"
    /\ io_call.n < MaxIoCalls
    /\ io_family' = "PACEBMS"
    /\ IF ~generate_bms_request("PACEBMS", command, Some(pack_number)).ok
       THEN /\ io_call' = IoCall(io_call.n + 1, PaceGetter(command), Some(pack_number),
                                 "idle", None)
            /\ UNCHANGED transport_log
       ELSE /\ transport_log' = Append(transport_log, SendEvent(io_call.n + 1, ok))
            /\ io_call' = IoCall(io_call.n + 1, PaceGetter(command), Some(pack_number),
                                 AfterSend(ok), None)
    /\ UNCHANGED <<publish_cycle, io_frame>>

\* pacebms.py:579-591: the response is read and decoded
PaceReceive(rk) ==
    /\ io_family = "PACEBMS"
    /\ io_call.pc = "sent"
    /\ transport_log' = Append(transport_log, ReceiveEvent(io_call.n))
    /\ io_call' = [io_call EXCEPT !.pc = "idle", !.ret = PaceGetResult(PaceReceived(rk))]
    /\ UNCHANGED <<io_family, publish_cycle, io_frame>>

\* the command sent before the name is looked up
JkSendBeforeLookup(register_name, ok) ==
    /\ io_family \in {"none", "JKBMS485"}
    /\ io_call.pc = "idle"
    /\ io_call.n < MaxIoCalls
    /\ io_family' = "JKBMS485"
    /\ transport_log' = Append(transport_log, SendEvent(io_call.n + 1, ok))
    /\ io_call' = IoCall(io_call.n + 1, "read_register_data", Some(register_name),
                         IF register_name \notin RequestNames THEN "idle" ELSE AfterSend(ok),
                         None)
    /\ UNCHANGED <<publish_cycle, io_frame>>

\* JKBMS485.read_register_data(register_name), jkbms_rs485.py:338-352: an
\* unknown name returns None, for a known one the command is sent
JkSend(register_name, ok) ==
    /\ io_family \in {"none", "JKBMS485"}
    /\ io_call.pc = "idle"
    /\ io_call.n < MaxIoCalls
    /\ io_family' = "JKBMS485"
    /\ IF register_name \notin RequestNames
       THEN /\ io_call' = IoCall(io_call.n + 1, "read_register_data", Some(register_name),
                                 "idle", None)
            /\ UNCHANGED transport_log
       ELSE /\ transport_log' = Append(transport_log, SendEvent(io_call.n + 1, ok))
            /\ io_call' = IoCall(io_call.n + 1, "read_register_data", Some(register_name),
                                 AfterSend(ok), None)
    /\ UNCHANGED <<publish_cycle, io_frame>>

\* jkbms_rs485.py:355-364: the response is read and parsed
JkReceive(rk) ==
    /\ io_family = "JKBMS485"
    /\ io_call.pc = "sent"
    /\ LET response == JkReceived(io_call.arg[1], rk, default_slave_address)
       IN /\ transport_log' = Append(transport_log, ReceiveEvent(io_call.n))
          /\ io_call' = [io_call EXCEPT !.pc = "idle", !.ret = JkReadResult(response)]
    /\ UNCHANGED <<io_family, publish_cycle, io_frame>>

TdtStep ==
    \/ \E ok \in BOOLEAN : TdtSend(ok)
    \/ \E rk \in ResponseKinds : TdtReceive(rk)

IoNext ==
    \/ \E kind \in {"analog", "warning"}, pack_list \in CyclePackLists :
          StartCycle(kind, pack_list)
    \/ TdtStep
    \/ \E command \in PaceCommands, pack_number \in 1..MaxCyclePacks, ok \in BOOLEAN :
          PaceSend(command, pack_number, ok)
    \/ \E rk \in ResponseKinds \ {"other_pack"} : PaceReceive(rk)
    \/ \E register_name \in IoRegisterNames, ok \in BOOLEAN : JkSend(register_name, ok)
    \/ \E rk \in ResponseKinds \ {"other_pack"} : JkReceive(rk)

(***************************************************************************)
(* BMSComm._receive_tcp_modbus_response: the receive loop of a TCP socket  *)
(***************************************************************************)
\* max_attempts
max_attempts == 5
MaxChunkLen == 4
MaxRecvs == 6
\* what the peer has to send: a response followed by the start of the next
\* one, a response without registers, a response cut short, and nothing
TcpStreams == {<<1, 3, 2, 0, 7, 9, 9, 8>>, <<1, 3, 0, 9, 9>>, <<1, 3, 4, 0>>, <<>>}
\* what one recv does: returns bytes, returns b'', raises socket.timeout or
\* raises another exception
RecvOutcomes == {"data", "empty", "timeout", "error"}

TcpReceive(pc, stream, pending, attempt, all_data, recvs, seen, ret) ==
    [pc |-> pc, stream |-> stream, pending |-> pending, attempt |-> attempt,
     all_data |-> all_data, recvs |-> recvs, seen |-> seen, ret |-> ret]

TcpIdle == tcp_receive = TcpReceive("idle", <<>>, <<>>, 0, <<>>, 0, {}, None)

\* line 167
ExpectedLength(all_data) == 3 + all_data[3] + 2
\* lines 165-169
CompleteResponse(all_data) ==
    Len(all_data) >= 3 /\ Len(all_data) >= ExpectedLength(all_data)

\* a loop that counts only the attempts that ended without an exception
AttemptAfterNoException(attempt, outcome) ==
    IF outcome \in {"timeout", "error"} THEN attempt ELSE attempt + 1

\* line 185: attempt += 1 follows the try statement, whatever it did
AttemptAfter(attempt, outcome) == attempt + 1

\* lines 187-192
PartialResponse(all_data) == IF all_data # <<>> THEN Some(all_data) ELSE None

\* lines 138-147: the call starts with nothing received and no attempt made
TcpStart(stream) ==
    /\ tcp_receive.pc \in {"idle", "returned"}
    /\ tcp_receive' = TcpReceive("loop", stream, stream, 0, <<>>, 0, {}, None)
    /\ UNCHANGED tcp_frame

\* lines 149-192: one pass of the while loop, and the return after the loop
\* when the pass was the last one.  A chunk is the next k bytes of the stream.
TcpRecv(outcome, k) ==
    /\ tcp_receive.pc = "loop"
    /\ tcp_receive.attempt < max_attempts
    /\ tcp_receive.recvs < MaxRecvs
    /\ IF outcome = "data" THEN k \in 1..Len(tcp_receive.pending) ELSE k = 0
    /\ LET chunk == SubSeq(tcp_receive.pending, 1, k)
           pending == SubSeq(tcp_receive.pending, k + 1, Len(tcp_receive.pending))
           all_data == tcp_receive.all_data \o chunk
           attempt == AttemptAfter(tcp_receive.attempt, outcome)
           recvs == tcp_receive.recvs + 1
           seen == tcp_receive.seen \cup {outcome}
       IN tcp_receive' =
             IF outcome = "data" /\ CompleteResponse(all_data)
             THEN TcpReceive("returned", tcp_receive.stream, pending, tcp_receive.attempt,
                             all_data, recvs, seen,
                             Some(SubSeq(all_data, 1, ExpectedLength(all_data))))
             ELSE IF attempt < max_attempts
             THEN TcpReceive("loop", tcp_receive.stream, pending, attempt, all_data,
                             recvs, seen, None)
             ELSE TcpReceive("returned", tcp_receive.stream, pending, attempt, all_data,
                             recvs, seen, PartialResponse(all_data))
    /\ UNCHANGED tcp_frame

TcpPass == \E outcome \in RecvOutcomes, k \in 0..MaxChunkLen : TcpRecv(outcome, k)

TcpNext ==
    \/ \E stream \in TcpStreams : TcpStart(stream)
    \/ TcpPass

(***************************************************************************)
(* JKBMS485.publish_analog_data_mqtt / publish_warning_data_mqtt: the      *)
(* acquisition loop in front of the publishing                             *)
(***************************************************************************)
MaxAcquireCalls == 3
MaxPublishCycles == 2
PublishFunctions == {"publish_analog_data_mqtt", "publish_warning_data_mqtt"}
\* the reads that fail in one acquisition: none, the address probes, one
\* telemetry read, every telemetry read, or every read
AcquireFailedSets ==
    {{}, {"Detect0"}, DetectRequests, {"CellVol0"}, {"BatWatt"}, {"SOCCapRemain"},
     TelemetryRequests, RequestNames}
AcquireFailureKinds == {"send_failed", "no_response"}
WarningFailedSets == {{}, {"AlarmSta"}, WarningRequests}

\* the reads of every acquisition the loop is tried on
AcquireReadsTable ==
    [failing \in AcquireFailedSets |->
        [failure \in AcquireFailureKinds |->
            [detected \in BOOLEAN |->
                [addr \in SlaveAddresses |-> AnalogReads(failing, failure, detected, addr)]]]]

Acquire(fn, pc, calls, cycles, data, ret) ==
    [fn |-> fn, pc |-> pc, calls |-> calls, cycles |-> cycles, data |-> data, ret |-> ret]

AcquireIdle == acquire = Acquire("", "idle", 0, 0, None, "")

\* a loop that leaves only once cell data has arrived
LoopExitsWhenCellsRead(fn, data) ==
    /\ data # None
    /\ IF fn = "publish_analog_data_mqtt" THEN data[1][1].view_num_cells > 0
       ELSE data[1][1].cell_number > 0

\* lines 1085-1086 and 1161-1162: if analog_data / warn_data is not None: break
LoopExits(fn, data) == data # None

\* lines 1083-1086, 1159-1162: the state of the loop after one get call
AfterAcquire(a, data) ==
    [a EXCEPT !.calls = @ + 1, !.data = data,
              !.pc = IF LoopExits(a.fn, data) THEN "publish" ELSE "acquire"]

\* the publish function is entered; the loop has made no call yet
PublishStart(fn) ==
    /\ modbus_class = "JKBMS485"
    /\ acquire.pc \in {"idle", "returned"}
    /\ acquire.cycles < MaxPublishCycles
    /\ fn = "publish_analog_data_mqtt" => n_polls < MaxPolls
    /\ acquire' = Acquire(fn, "acquire", 0, acquire.cycles + 1, None, "")
    /\ UNCHANGED <<energy_vars, modbus_vars, parse_vars, ascii_vars, poll_vars, codec_vars,
                   fleet_vars, io_vars, tcp_receive>>

\* lines 1083-1086: one pass of the loop of publish_analog_data_mqtt
AcquireAnalog(failing, failure, now) ==
    /\ acquire.pc = "acquire"
    /\ acquire.fn = "publish_analog_data_mqtt"
    /\ acquire.calls < MaxAcquireCalls
    /\ GetAnalogDataWith(AcquireReadsTable[failing][failure][address_detected][default_slave_address],
                         failing, now)
    /\ acquire' = AfterAcquire(acquire, poll_call'.ret)
    /\ UNCHANGED <<poll_rest, tcp_receive>>

\* lines 1159-1162: one pass of the loop of publish_warning_data_mqtt
AcquireWarning(failing, failure) ==
    /\ acquire.pc = "acquire"
    /\ acquire.fn = "publish_warning_data_mqtt"
    /\ acquire.calls < MaxAcquireCalls
    /\ GetWarningDataCall(failing, failure)
    /\ acquire' = AfterAcquire(acquire, poll_call'.ret)
    /\ UNCHANGED <<poll_rest, tcp_receive>>

\* lines 1088-1150 and 1164-1186: the packs are counted and published
PublishAcquired ==
    /\ acquire.pc = "publish"
    /\ acquire' = [acquire EXCEPT !.pc = "returned",
                      !.ret = IF Len(acquire.data[1]) < 1 THEN "no_packs" ELSE "published"]
    /\ UNCHANGED <<energy_vars, modbus_vars, parse_vars, ascii_vars, poll_vars, codec_vars,
                   fleet_vars, io_vars, tcp_receive>>

AcquirePass ==
    \/ \E failing \in AcquireFailedSets, failure \in AcquireFailureKinds, now \in PollTimes :
          AcquireAnalog(failing, failure, now)
    \/ \E failing \in WarningFailedSets : AcquireWarning(failing, "no_response")
    \/ PublishAcquired

AcquireNext ==
    \/ \E fn \in PublishFunctions : PublishStart(fn)
    \/ AcquirePass

\* the parts added after the poll cycle, at rest
RestIdle == CodecIdle /\ FleetIdle /\ IoIdle /\ TcpIdle /\ AcquireIdle

Init == EnergyInit /\ ModbusInit /\ ParseIdle /\ AsciiIdle /\ PollInit /\ RestIdle

EnergyNext ==
    \/ \E p \in Powers, t \in Times : CalculateCumulativeEnergy(p, t)
    \/ ResetCumulativeEnergy

SpecEnergy == Init /\ [][EnergyNext]_vars
SpecModbus == Init /\ [][ModbusNext]_vars
InitParse == EnergyInit /\ ModbusInit /\ ParseInit /\ AsciiIdle /\ PollInit /\ RestIdle
SpecParse == InitParse /\ [][ParseNext]_vars
InitAscii == EnergyInit /\ ModbusInit /\ ParseIdle /\ AsciiInit /\ PollInit /\ RestIdle
SpecAscii == InitAscii /\ [][AsciiNext]_vars
SpecPoll == Init /\ [][PollNext]_vars
SpecDetect == Init /\ [][DetectNext]_vars
SpecCodec == Init /\ [][CodecNext]_vars
SpecWarnCode == Init /\ [][WarnCodeNext]_vars
SpecCrc == Init /\ [][CrcNext]_vars
SpecAccumulator == Init /\ [][AccumulatorNext]_vars
\* recv returns or raises within the timeout set on line 153, so a pass of
\* the loop that can be made is made
SpecTcpReceive == Init /\ [][TcpNext]_vars /\ WF_vars(TcpPass)
\* a get call is straight-line code over reads that return, so a pass of the
\* acquisition loop that can be made is made
SpecAcquire == Init /\ [][AcquireNext]_vars /\ WF_vars(AcquirePass)
SpecFleet == Init /\ [][FleetNext]_vars
SpecTransport == Init /\ [][IoNext]_vars
\* the thread of a publish cycle runs on: send_data and receive_data return
\* (bms_comm.py:72-94 and 96-130, reads with a timeout), so that a cycle that
\* can take its next step takes it
SpecCycle == Init /\ [][IoNext]_vars /\ WF_vars(TdtStep)

(***************************************************************************)
(* Claims about the energy accumulator (checked under SpecEnergy)          *)
(***************************************************************************)
\* the last operation was a calculate call made in the running state
RunningCall == energy_call.op = "calc" /\ energy_call.prev_time # None
Elapsed == energy_call.now[1] - energy_call.prev_time[1]
Totals == <<total_energy_charged, total_energy_discharged>>
PrevTotals == <<energy_call.prev_charged, energy_call.prev_discharged>>

\* the first call of a fresh accumulator was (1.0 kW, t = 0)
C1_FirstCall(c) ==
    /\ c.op = "calc" /\ c.prev_time = None
    /\ c.prev_charged = 0 /\ c.prev_discharged = 0
    /\ c.power = Some(1000) /\ c.now = Some(0)
\* ... and the second call is (1.0 kW, t = 3600)
C1_SecondCall ==
    /\ C1_FirstCall(energy_prev_call)
    /\ energy_call.op = "calc" /\ energy_call.power = Some(1000)
    /\ energy_call.now = Some(3600)

\* C1 as stated: fresh accumulator, call (1.0 kW, t=0) returns (0, 0) and the
\* call (1.0 kW, t=3600) returns (1000 Wh charged, 0 Wh discharged).
C1_Original ==
    /\ C1_FirstCall(energy_call) => energy_call.ret = <<0, 0>>
    /\ C1_SecondCall => energy_call.ret = <<1000 * WsPerWh, 0>>

\* C1 amended: fresh accumulator, call (1.0 kW, t=0) returns (0, 0) and the
\* call (1.0 kW, t=3600) returns (0, 0) as well: its interval of 3600 s is
\* above 300 s, so it is skipped and both totals stay 0.
C1_Amended ==
    /\ C1_FirstCall(energy_call) => energy_call.ret = <<0, 0>> /\ Totals = <<0, 0>>
    /\ C1_SecondCall => energy_call.ret = <<0, 0>> /\ Totals = <<0, 0>>

C1_Witness == C1_SecondCall

\* C2: a running-state call with elapsed <= 0 or > 300 s leaves both totals
\* unchanged and stores the current time; the totals only change in calls
\* with 0 < elapsed <= 300 s; the call after an anomalous call measures its
\* elapsed time from the anomalous call.
C2_Anomalous(c) ==
    /\ c.op = "calc" /\ c.prev_time # None
    /\ (c.now[1] - c.prev_time[1] <= 0 \/ c.now[1] - c.prev_time[1] > 300)

C2_AnomalousCallSkipped ==
    /\ C2_Anomalous(energy_call) =>
          /\ Totals = PrevTotals
          /\ energy_call.ret = PrevTotals
          /\ last_energy_time = energy_call.now
    /\ (energy_call.op = "calc" /\ Totals # PrevTotals) =>
          /\ energy_call.prev_time # None
          /\ 0 < Elapsed /\ Elapsed <= 300
    /\ (C2_Anomalous(energy_prev_call) /\ energy_call.op = "calc") =>
          /\ energy_call.prev_time = energy_prev_call.now
          /\ LET e == energy_call.now[1] - energy_prev_call.now[1]
                 p == energy_call.power
             IN (0 < e /\ e <= 300 /\ p # None) =>
                   total_energy_charged + total_energy_discharged =
                      energy_call.prev_charged + energy_call.prev_discharged
                         + Abs(p[1]) * e

\* an anomalous 1.0 kW call (interval > 300 s) followed by a valid call that
\* accumulates energy
C2_Witness ==
    /\ C2_Anomalous(energy_prev_call)
    /\ energy_prev_call.now[1] - energy_prev_call.prev_time[1] > 300
    /\ energy_prev_call.power = Some(1000)
    /\ RunningCall /\ 0 < Elapsed /\ Elapsed <= 300 /\ Totals # PrevTotals

\* C3: a running-state call with 0 < elapsed <= 300 s adds exactly
\* |power_kW| * elapsed * 1000 / 3600 Wh (= |power_W| * elapsed Ws) to the
\* charged total when power >= 0 and to the discharged total when power < 0,
\* leaves the other total unchanged and returns the two updated totals.
C3_ValidCallAccumulates ==
    (RunningCall /\ 0 < Elapsed /\ Elapsed <= 300 /\ energy_call.power # None) =>
        LET p == energy_call.power[1]
            delta == Abs(p) * Elapsed
        IN /\ p >= 0 => Totals = <<energy_call.prev_charged + delta,
                                   energy_call.prev_discharged>>
           /\ p < 0  => Totals = <<energy_call.prev_charged,
                                   energy_call.prev_discharged + delta>>
           /\ energy_call.ret = Totals

\* a discharging call over 100 s on top of earlier charge
C3_Witness ==
    /\ RunningCall /\ Elapsed = 100 /\ energy_call.power = Some(-1000)
    /\ total_energy_discharged = 100000 /\ total_energy_charged > 0

\* C4: reset zeroes both totals and clears the timestamp from any state; the
\* first calculate call after construction or after a reset only stores the
\* timestamp and returns (0, 0), whatever the power and the time.
C4_ResetReturnsToUninitialized ==
    /\ energy_call.op = "reset" =>
          Totals = <<0, 0>> /\ last_energy_time = None
    /\ (energy_call.op = "calc" /\ energy_prev_call.op \in {"none", "reset"}) =>
          /\ energy_call.ret = <<0, 0>>
          /\ Totals = <<0, 0>>
          /\ last_energy_time = energy_call.now

\* a call at a positive interval with 1.0 kW right after a reset that wiped
\* accumulated energy
C4_Witness ==
    /\ energy_prev_call.op = "reset" /\ energy_prev_call.prev_charged > 0
    /\ energy_call.op = "calc" /\ energy_call.power = Some(1000)
    /\ energy_call.now[1] - energy_prev_call.prev_time[1] = 100


(***************************************************************************)
(* Claims about the Modbus codec                                           *)
(***************************************************************************)
Parsed == parse_call.op = "parse_register_response"
RxLen == Len(rx_response)
\* the CRC recomputed over all bytes but the last two equals the last two
\* bytes read little-endian
RxCrcValid ==
    calculate_crc16_modbus(SubSeq(rx_response, 1, RxLen - 2))
        = rx_response[RxLen - 1] + 256 * rx_response[RxLen]

\* C5: parse_register_response returns register values only when the response
\* has at least 5 bytes, its CRC validates and its function code is 0x03;
\* the checks are made in this order (the first failing check is the one
\* reported, so a frame with a bad CRC is rejected for its CRC whatever its
\* function code), and a failed check returns no register values.
C5_ChecksInOrder ==
    Parsed =>
      /\ parse_call.ret.ok => (RxLen >= 5 /\ RxCrcValid /\ rx_response[2] = 3)
      /\ ~parse_call.ret.ok => parse_call.ret.values = <<>>
      /\ RxLen < 5 => parse_call.ret = RetNone("length insufficient")
      /\ (RxLen >= 5 /\ ~RxCrcValid) => parse_call.ret = RetNone("CRC check failed")
      /\ (RxLen >= 5 /\ RxCrcValid /\ rx_response[2] # 3) =>
            parse_call.ret = RetNone("function code mismatch")

\* a frame whose function-code byte was replaced, so that both the CRC and the
\* function code are wrong, was rejected for its CRC
C5_Witness ==
    /\ Parsed /\ response_origin.kind = "altered" /\ response_origin.pos = 2
    /\ rx_response[2] # 3 /\ ~RxCrcValid
    /\ parse_call.ret = RetNone("CRC check failed")

\* The Modbus half of C6: a valid Modbus frame with one byte replaced fails the
\* CRC check and yields no register values (holds under SpecParse).
C6_ModbusAlteredRejected ==
    (Parsed /\ response_origin.kind = "altered") =>
        parse_call.ret = RetNone("CRC check failed")

\* C7 as stated, for parse_register_response: a response whose byteCount is
\* not the number of bytes between the 3-byte header and the 2-byte CRC is
\* rejected, so a CRC byte is never returned as register data.
C7_DeclaredLengthChecked ==
    (Parsed /\ RxLen >= 5 /\ rx_response[3] # RxLen - 5) => ~parse_call.ret.ok

\* C9: round trip.  The response built from n >= 1 registers as address, 0x03,
\* byteCount = 2n, the registers big-endian and the CRC16 little-endian is
\* decoded to exactly those registers, and get_cellvol1_voltage_mv returns
\* the first of them.
C9_RoundTrip ==
    (response_origin.kind = "valid" /\ Len(response_origin.regs) >= 1) =>
        /\ rx_response[3] = 2 * Len(response_origin.regs)
        /\ RxLen = 5 + 2 * Len(response_origin.regs)
        /\ Parsed => parse_call.ret = Ret(TRUE, response_origin.regs, "")
        /\ parse_call.op = "get_cellvol1_voltage_mv" =>
              parse_call.ret = Ret(TRUE, <<response_origin.regs[1]>>, "")

\* the mock response of the test (01 03 02 0C E4 + CRC) decoded to 3300 mV
C9_Witness ==
    /\ rx_response = <<1, 3, 2, 12, 228, 189, 15>>
    /\ parse_call = ParseCall("get_cellvol1_voltage_mv", Ret(TRUE, <<3300>>, ""))

\* C10: build_read_register_command returns exactly 8 bytes: the slave address
\* (the current default when none is given), 0x03, the register address and
\* the register count big-endian, then the CRC16 of those 6 bytes low byte
\* first; build_read_cellvol1_command reads 1 register at 0x1202 and
\* build_read_all_cell_voltages_command(n) reads n registers from 0x1200.
C10_Built == modbus_call.op \in {"build_read_register_command",
                                 "build_read_cellvol1_command",
                                 "build_read_all_cell_voltages_command"}
AnalogParsed == ascii_call.op = "parse_analog_data"

\* C6 as stated, for the ASCII family: when one character of a well-formed
\* response is replaced by a different one, parse_analog_data does not return
\* pack data (the decode fails, the claim says with a checksum error).
C6_AlteredFrameRejected ==
    (AnalogParsed /\ ascii_origin.kind = "altered") => ~ascii_call.ret.ok

(***************************************************************************)
(* Claims about the poll cycle (checked under SpecPoll)                    *)
(***************************************************************************)
Polled == poll_call.op = "get_analog_data"

\* the requests of the last cycle after its probes
TelemetrySent ==
    SelectSeq(poll_call.requests, LAMBDA r : r.name \notin DetectRequests)
ProbesSent ==
    SelectSeq(poll_call.requests, LAMBDA r : r.name \in DetectRequests)
AllSentTo(requests, addr) == \A i \in 1..Len(requests) : requests[i].addr = addr

\* C11: a cycle that starts undetected probes candidate 0 and then, only when
\* the answer of 0 does not pass the checks, candidate 1, each with a BatVol
\* read before any telemetry read; the first candidate whose answer passes
\* becomes the address of every later request of the cycle and the stored
\* address, and detection is then marked done; a cycle that starts detected
\* issues no probe and reads at the stored address.
C11_FirstAnsweringCandidateAdopted ==
    Polled =>
        /\ poll_call.requests = ProbesSent \o TelemetrySent
        /\ Len(TelemetrySent) = Cardinality(TelemetryRequests)
        /\ AllSentTo(TelemetrySent, poll_call.address_after)
        /\ IF poll_call.detected_before
           THEN /\ ProbesSent = <<>>
                /\ poll_call.address_after = poll_call.address_before
                /\ address_detected
           ELSE IF "Detect0" \notin poll_call.failed
           THEN /\ ProbesSent = <<Request("Detect0", 0)>>
                /\ poll_call.address_after = 0
                /\ address_detected
           ELSE IF "Detect1" \notin poll_call.failed
           THEN /\ ProbesSent = <<Request("Detect0", 0), Request("Detect1", 1)>>
                /\ poll_call.address_after = 1
                /\ address_detected
           ELSE ProbesSent = <<Request("Detect0", 0), Request("Detect1", 1)>>

\* candidate 0 gave an exception response, candidate 1 answered and was
\* adopted, and the next cycle ran without a probe at address 1
C11_Witness ==
    /\ Polled /\ n_polls = 2 /\ poll_call.detected_before
    /\ poll_call.address_before = 1 /\ ProbesSent = <<>>
    /\ AllSentTo(poll_call.requests, 1)

\* C12 as stated: when neither candidate answers, the slave address after the
\* detection is the one in effect before it, also when set_slave_address
\* chose it, and the reads of the cycle go to that address.
C12_FailedDetectionKeepsAddress ==
    (Polled /\ ~poll_call.detected_before /\ DetectRequests \subseteq poll_call.failed) =>
        /\ poll_call.address_after = poll_call.address_before
        /\ AllSentTo(TelemetrySent, poll_call.address_before)

\* the read a field of the pack record comes from failed in the cycle and the
\* record holds 0 for the field
ZeroForFailedRead(pack) ==
    \/ "BatCurrent" \in poll_call.failed /\ pack.view_current = 0
    \/ "BatVol" \in poll_call.failed /\ pack.view_voltage = 0
    \/ "BatWatt" \in poll_call.failed /\ pack.view_power = 0
    \/ "SOCCapRemain" \in poll_call.failed /\ pack.view_remain_capacity = 0
    \/ "SOCFullChargeCap" \in poll_call.failed /\ pack.view_full_capacity = 0
    \/ "BalanSOC" \in poll_call.failed /\ pack.view_SOC = 0
    \/ "SOCSOH" \in poll_call.failed /\ pack.view_SOH = 0

\* C8 as stated: get_analog_data never returns a pack record in which a failed
\* read of current, voltage, power, capacity, SOC or SOH appears as 0; a cycle
\* with such a failed read reports no data.
C8_FailedReadNotReportedAsZero ==
    (Polled /\ poll_call.ret # None) =>
        \A i \in 1..Len(poll_call.ret[1]) : ~ZeroForFailedRead(poll_call.ret[1][i])

(***************************************************************************)
(* Claims about the ASCII requests and checksums (checked under SpecCodec) *)
(***************************************************************************)
Generated == codec_call.op = "generate_bms_request" /\ codec_call.ret.ok

\* the request of the last call as the frame layout gives it: '~', VER, ADR,
\* CID1, CID2, LCHKSUM, LENID, INFO (only when LENID is not "000"), CHKSUM, CR
RequestLayout ==
    LET info == ZeroPad(FormatX(OrDefault(codec_call.pack_number, BroadcastPack)), 2)
        adr == SubSeq(codec_call.ret.request, 4, 5)
        lenid == LENID(codec_call.command)
        body == <<"~", "2", "5">> \o adr \o <<"4", "6">> \o CID2(codec_call.command)
                   \o lchksum_calc(lenid) \o lenid
                   \o (IF lenid = <<"0", "0", "0">> THEN <<>> ELSE info)
    IN body \o chksum_calc(body) \o <<"\r">>

\* C16 as stated: for every known command of either family the request is
\* '~', VER, ADR, CID1, CID2, LCHKSUM, LENID, INFO, CHKSUM, carriage return,
\* where INFO is the pack number in two hex digits (FF when none is given) and
\* is present exactly when the command's LENID is not "000".
C16_InfoOnlyWithLenid ==
    Generated => codec_call.ret.request = RequestLayout

ChksumCalled == codec_call.op = "chksum_calc"

\* C17 as stated: chksum_calc returns exactly 4 hex digits whose value c has
\* 0 <= c <= 0xFFFF and (sum of the bytes after the start marker + c) mod
\* 65536 = 0.
C17_FourDigitTwosComplement ==
    ChksumCalled =>
        /\ Len(codec_call.ret.request) = 4
        /\ AllHex(codec_call.ret.request)
        /\ IntHex(codec_call.ret.request) <= 65535
        /\ (SumOrd(codec_call.data, 2) + IntHex(codec_call.ret.request)) % 65536 = 0

LchksumCalled == codec_call.op = "lchksum_calc" /\ codec_call.data \in Lenids

\* C18: for every LENID of three hex digits lchksum_calc returns exactly one
\* uppercase hex digit L with (sum of the three digit values + L) mod 16 = 0,
\* in both families; "002" gives "E" and "000" gives "0".
C18_LengthChecksum ==
    LchksumCalled =>
        /\ Len(codec_call.ret.request) = 1
        /\ IsHexDigit(codec_call.ret.request[1])
        /\ (SumHexVal(codec_call.data, 1) + HexVal(codec_call.ret.request[1])) % 16 = 0
        /\ (codec_call.data = <<"0", "0", "2">> => codec_call.ret.request = <<"E">>)
        /\ (codec_call.data = <<"0", "0", "0">> => codec_call.ret.request = <<"0">>)

\* lchksum_calc of TDTBMS232 was called with "002" and returned "E"
C18_Witness ==
    /\ LchksumCalled /\ codec_call.family = "TDTBMS232"
    /\ codec_call.data = <<"0", "0", "2">> /\ codec_call.ret.request = <<"E">>


(***************************************************************************)
(* Claims about the decoders of the ASCII family (checked under SpecAscii) *)
(***************************************************************************)
AnalogDecoded == ascii_call.op \in {"parse_analog_data", "tdt_parse_analog_data"}

\* the current a decoded pack reports, in 0.01 A
ReportedCurrent(op, pack) ==
    IF op = "parse_analog_data" THEN pack.pack_current ELSE pack.view_current

\* a 16-bit raw value read as two's complement
TwosComplement16(raw) == IF raw >= 32768 THEN raw - 65536 ELSE raw

\* C19 as stated: in both decoders of the ASCII family the current of a pack
\* of a well-formed analog response is the 16-bit raw field read as two's
\* complement (raw when raw < 32768, raw - 65536 otherwise), in 0.01 A.
C19_CurrentTwosComplement ==
    (AnalogDecoded /\ ascii_origin.kind = "valid" /\ ascii_call.ret.ok) =>
        \A i \in 1..Len(ascii_call.ret.packs) :
            ReportedCurrent(ascii_call.op, ascii_call.ret.packs[i])
                = TwosComplement16(ascii_origin.packs[i].scalars[1])


\* the CID1 and the return code of a response that starts with SOI
ResponseCid1 == Slice(ascii_response, 5, 7)
ResponseRtn == Slice(ascii_response, 7, 9)
HeaderRejected ==
    /\ ascii_response[1] = "~"
    /\ ResponseCid1 # <<"4", "6">> \/ ResponseRtn # <<"0", "0">>

\* C20 as stated: each of the four decoders (analog and warning, PACEBMS and
\* TDTBMS232) returns no telemetry for a response whose CID1 is not '46' or
\* whose return code is not '00', so that get_analog_data / get_warning_data
\* return None for it.
C20_HeaderCheckedBeforePayload ==
    (ascii_call.op # "none" /\ HeaderRejected) => ~ascii_call.ret.ok


(***************************************************************************)
(* Claims about the fleet aggregation (checked under SpecFleet)            *)
(***************************************************************************)
FleetPublished == fleet_call.op = "publish_analog_data_mqtt"

\* the value published under the name, or None
RECURSIVE PublishedFrom(_, _, _)
PublishedFrom(published, name, i) ==
    IF i > Len(published) THEN None
    ELSE IF published[i][1] = name THEN Some(published[i][2])
    ELSE PublishedFrom(published, name, i + 1)
PublishedTotal(total) ==
    PublishedFrom(fleet_call.ret.published, TotalName(fleet_call.family, total), 1)

\* C15 as stated: in every family, when at least one pack was collected the
\* aggregation ends without a division fault and publishes as fleet SOC
\* total remaining / total full * 100 rounded to one decimal, and 0 when the
\* total full capacity is 0.
C15_FleetSocGuarded ==
    (FleetPublished /\ fleet_call.analog_data # None /\ fleet_call.analog_data # Some(<<>>)) =>
        /\ fleet_call.ret.error = ""
        /\ PublishedTotal("total_full_capacity") # None
        /\ PublishedTotal("total_SOC") =
              IF PublishedTotal("total_full_capacity") = Some(0) THEN Some(0)
              ELSE Some(FleetSoc(PublishedTotal("total_remain_capacity")[1],
                                 PublishedTotal("total_full_capacity")[1]))


(***************************************************************************)
(* Claims about the publish cycle of TDTBMS232 and the transport (checked  *)
(* under SpecCycle and SpecTransport)                                      *)
(***************************************************************************)
CycleRunning == publish_cycle.state = "running"
CycleDone == publish_cycle.state = "done"
CyclePacks == {publish_cycle.pack_list[i] : i \in 1..Len(publish_cycle.pack_list)}
Collected == {publish_cycle.collected[i] : i \in 1..Len(publish_cycle.collected)}
\* the get calls made for a pack in the cycle, in order
AttemptsOf(pack_number) ==
    SelectSeq(publish_cycle.attempts, LAMBDA a : a.pack_number = pack_number)
SendsLogged == SelectSeq(transport_log, LAMBDA e : e.ev = "send")

\* every get call of the cycle is one send_data call; no pack is tried more
\* than max_retries times nor after a try that decoded; a finished cycle
\* tried every pack and holds one record for each pack whose last try decoded
\* and none for a pack whose tries all failed
CycleRetriesBounded ==
    (io_family = "TDTBMS232") =>
        /\ Len(SendsLogged) = Len(publish_cycle.attempts)
                                 + (IF io_call.pc = "sent" THEN 1 ELSE 0)
        /\ Len(publish_cycle.data) = Len(publish_cycle.collected)
        /\ \A i \in 1..Len(publish_cycle.attempts) :
              publish_cycle.attempts[i].pack_number \in CyclePacks
        /\ \A p \in CyclePacks :
              LET a == AttemptsOf(p)
              IN /\ Len(a) <= max_retries
                 /\ \A i \in 1..(Len(a) - 1) : ~a[i].ok
                 /\ Len(SelectSeq(publish_cycle.collected, LAMBDA q : q = p)) <= 1
                 /\ CycleDone =>
                       /\ Len(a) >= 1
                       /\ (p \in Collected) <=> a[Len(a)].ok
                       /\ ~a[Len(a)].ok => Len(a) = max_retries

\* C13: in a publish cycle of TDTBMS232 (analog or warning) every pack of
\* pack_list is requested at least once and at most 3 times, no request is
\* made for a pack after its first successful decode, a pack whose 3 attempts
\* all fail contributes no record, and a cycle that has started finishes.
C13_RetriesBoundedAndCycleEnds ==
    /\ []CycleRetriesBounded
    /\ CycleRunning ~> CycleDone

\* pack 1 failed three times and has no record, pack 2 decoded at its second
\* attempt, and the cycle ended with the one record
C13_Witness ==
    /\ CycleDone
    /\ publish_cycle.pack_list = <<1, 2>>
    /\ publish_cycle.attempts = <<Attempt(1, FALSE), Attempt(1, FALSE), Attempt(1, FALSE),
                                  Attempt(2, FALSE), Attempt(2, TRUE)>>
    /\ publish_cycle.collected = <<2>>
    /\ Len(publish_cycle.data) = 1

\* C14: on the transport each receive_data call is immediately preceded by a
\* send_data call of the same get / read call that returned True, no request
\* is sent while the response of the previous one is outstanding, and a
\* send_data that failed is followed by no receive_data call.
C14_RequestsAndResponsesAlternate ==
    /\ \A i \in 1..Len(transport_log) :
          transport_log[i].ev = "receive" =>
              /\ i > 1
              /\ transport_log[i - 1] = SendEvent(transport_log[i].call, TRUE)
    /\ \A i \in 2..Len(transport_log) :
          transport_log[i].ev = "send" =>
              /\ transport_log[i].call > transport_log[i - 1].call
              /\ \/ transport_log[i - 1].ev = "receive"
                 \/ transport_log[i - 1].ev = "send" /\ ~transport_log[i - 1].ok
    /\ (io_call.pc = "sent") <=>
          /\ transport_log # <<>>
          /\ transport_log[Len(transport_log)] = SendEvent(io_call.n, TRUE)

\* a send failed, the next call sent again and read its response, and a third
\* call sent its request
C14_Witness ==
    /\ Len(transport_log) = 4
    /\ transport_log[1] = SendEvent(1, FALSE)
    /\ transport_log[2] = SendEvent(2, TRUE)
    /\ transport_log[3] = ReceiveEvent(2)
    /\ io_call.ret = None
    /\ transport_log[4] = SendEvent(3, TRUE)
    /\ io_call.pc = "sent"


(***************************************************************************)
(* Claims about the warning codes (checked under SpecWarnCode)             *)
(***************************************************************************)
WarningInterpreted == codec_call.op = "interpret_warning"

\* C21: interpret_warning returns a name for every byte value: 'normal' for
\* 0x00, 'below lower limit' for 0x01, 'above upper limit' for 0x02, 'user
\* defined' for 0x80..0xEF, 'other fault' for 0xF0 and 'unknown' for every
\* other value, and PACEBMS and TDTBMS232 return the same name.
C21_WarningCodeMapping ==
    WarningInterpreted =>
        LET value == codec_call.data[1]
            pace == codec_call.ret.request[1]
            tdt == codec_call.ret.request[2]
        IN /\ pace = tdt
           /\ (pace = "normal") <=> (value = 0)
           /\ (pace = "below lower limit") <=> (value = 1)
           /\ (pace = "above upper limit") <=> (value = 2)
           /\ (pace = "user defined") <=> (value \in 128..239)
           /\ (pace = "other fault") <=> (value = 240)
           /\ (pace = "unknown") <=> (value \in (3..127) \cup (241..255))

\* the byte 0xF0, next to the range of the user-defined codes
C21_Witness ==
    /\ WarningInterpreted
    /\ codec_call.data = <<240>>
    /\ codec_call.ret.request = <<"other fault", "other fault">>

(***************************************************************************)
(* Claims about the counted lists of the ASCII decoders (SpecAscii)        *)
(***************************************************************************)
AnalogOps == {"parse_analog_data", "tdt_parse_analog_data"}
WarningOps == {"parse_warning_data", "tdt_parse_warning_data"}

\* the characters of one list entry: two bytes in an analog response, one
\* byte in a warning response
EntryChars == IF ascii_origin.kind \in {"valid", "altered"} THEN 4 ELSE 2

\* where the sender of a one-pack response put the two counts: the cell
\* count after '~', the six header bytes, INFOFLAG and the pack count, the
\* temperature count after the cell entries the response holds
CellCountAt == 18
TempCountAt == 20 + EntryChars * Len(ascii_origin.packs[1].cells)
DeclaredAt(pos) == IntOf(SubSeq(ascii_response, pos, pos + 1))

\* the response declares more cell or temperature entries than it holds
HoldsFewerThanDeclared ==
    /\ ascii_origin.kind # "none"
    /\ Len(ascii_origin.packs) = 1
    /\ \/ /\ DeclaredAt(CellCountAt).error = ""
          /\ DeclaredAt(CellCountAt).val > Len(ascii_origin.packs[1].cells)
       \/ /\ DeclaredAt(TempCountAt).error = ""
          /\ DeclaredAt(TempCountAt).val > Len(ascii_origin.packs[1].temps)

CountsMatch(pack) ==
    IF ascii_call.op \in WarningOps
    THEN /\ Len(pack.cell_voltage_warnings) = pack.cell_number
         /\ Len(pack.temp_sensor_warnings) = pack.temp_sensor_number
    ELSE IF ascii_call.op = "parse_analog_data"
    THEN /\ Len(pack.cell_voltages) = pack.num_cells
         /\ Len(pack.temperatures) = pack.num_temps
    ELSE /\ Len(pack.cell_voltages) = pack.view_num_cells
         /\ Len(pack.temperatures) = pack.view_num_temps

\* C22 as stated: every pack record of a successful decode has as many cell
\* and temperature entries as the record's counts say, and a response that
\* holds fewer entries than it declares is rejected: no decode of it
\* succeeds, with a shorter list or with entries taken from the bytes of the
\* field that follows.
C22_DeclaredCountsMatchEntries ==
    (ascii_call.op # "none" /\ ascii_call.ret.ok) =>
        /\ \A i \in 1..Len(ascii_call.ret.packs) : CountsMatch(ascii_call.ret.packs[i])
        /\ ~HoldsFewerThanDeclared

\* the part of C22 that holds: the lists of a decoded record are as long as
\* its counts
C22_RecordCountsMatch ==
    (ascii_call.op # "none" /\ ascii_call.ret.ok) =>
        \A i \in 1..Len(ascii_call.ret.packs) : CountsMatch(ascii_call.ret.packs[i])

\* a warning response of a pack without cell entries that declares one cell:
\* PACEBMS.parse_warning_data returns a record whose one cell warning is the
\* temperature count byte
C22_ShortFrameDecoded ==
    /\ ascii_call.op = "parse_warning_data"
    /\ ascii_origin.kind = "warning_altered"
    /\ ascii_origin.packs[1].cells = <<>>
    /\ ascii_origin.pos = CellCountAt + 1 /\ ascii_origin.char = "1"
    /\ ascii_call.ret.ok
    /\ ascii_call.ret.packs[1].cell_number = 1
    /\ Len(ascii_call.ret.packs[1].cell_voltage_warnings) = 1

(***************************************************************************)
(* Claims about the state bytes of a warning record (SpecWarnCode)         *)
(***************************************************************************)
WarnStateParsed == codec_call.op = "parse_warnstate"

\* the number of named booleans of each state byte the claim gives
NamedBits ==
    [n \in {"protect_state_1", "protect_state_2", "fault_state", "warn_state_1", "warn_state_2"} |->
        CASE n = "protect_state_1" -> 7
          [] n = "protect_state_2" -> 8
          [] n = "fault_state" -> 5
          [] n = "warn_state_1" -> 6
          [] OTHER -> 8]
RawStates == {"balance_state_1", "balance_state_2"}

\* the record the family's parse_warnstate returns for state byte k = value
DecodedState(family, k, value) ==
    IF family = "TDT"
    THEN tdt_parse_warnstate(TdtWarnStateInput(k, value, FALSE)).request[1][StateNames[k]]
    ELSE parse_warnstate(WarnStateInput(k, value, FALSE)).request[1][StateNames[k]]

\* for every boolean of byte k, the bits that switch it on when set alone
BitTable ==
    [family \in {"PACE", "TDT"}, k \in 1..StateCount |->
        IF StateNames[k] \in RawStates THEN <<>>
        ELSE [name \in DOMAIN DecodedState(family, k, 0) |->
                 {b \in 0..7 : DecodedState(family, k, 2 ^ b)[name]}]]
BitsOf(family, k, name) == BitTable[family, k][name]

\* C23: parse_warnstate reads nine state bytes after the three scalar
\* warnings, in the order protect_state_1, protect_state_2,
\* instruction_state, control_state, fault_state, balance_state_1,
\* balance_state_2, warn_state_1, warn_state_2: a value in byte k shows in
\* field k only, one byte less is an error and the pack that follows is read
\* from the byte after the ninth; protect_state_1, protect_state_2,
\* fault_state, warn_state_1 and warn_state_2 have 7, 8, 5, 6 and 8 named
\* booleans, every boolean has one bit of its own, different from the bits
\* of the other names of the byte, and is true exactly when that bit is set;
\* the balance bytes are returned as read.
C23_NineStateBytesInOrder ==
    WarnStateParsed =>
        LET family == codec_call.family
            k == codec_call.pack_number[1]
            bytes == codec_call.data
            value == bytes[6 + k]
            ret == codec_call.ret
            complete == Len(bytes) \in {6 + StateCount, 2 * (6 + StateCount)}
        IN IF ~complete THEN ~ret.ok /\ ret.error = "IndexError"
           ELSE
           /\ ret.ok
           /\ Len(ret.request) = IF family = "TDT" THEN 1 ELSE 2
           /\ family = "PACE" =>
                 /\ ret.request[2].cell_number = 1
                 /\ ret.request[2].cell_voltage_warnings = <<"above upper limit">>
           /\ \A j \in 1..StateCount :
                 LET name == StateNames[j]
                     field == ret.request[1][name]
                 IN IF name \in RawStates THEN field = (IF j = k THEN value ELSE 0)
                    ELSE /\ name \in DOMAIN NamedBits =>
                               Cardinality(DOMAIN field) = NamedBits[name]
                         /\ j # k => \A n \in DOMAIN field : ~field[n]
                         /\ j = k =>
                               /\ \A n \in DOMAIN field :
                                     /\ Cardinality(BitsOf(family, k, n)) = 1
                                     /\ field[n] <=> \E b \in BitsOf(family, k, n) : Bit(value, 2 ^ b)
                               /\ \A n, m \in DOMAIN field :
                                     n # m => BitsOf(family, k, n) \cap BitsOf(family, k, m) = {}

\* fault_state 0x25 (sampling, NTC and charge MOS faults) decoded by
\* TDTBMS232 from the fifth state byte
C23_Witness ==
    /\ WarnStateParsed
    /\ codec_call.family = "TDT"
    /\ codec_call.pack_number = Some(5)
    /\ codec_call.data[11] = 37
    /\ codec_call.ret.ok
    /\ codec_call.ret.request[1].fault_state =
          [fault_sampling |-> TRUE, fault_cell |-> FALSE, fault_NTC |-> TRUE,
           fault_discharge_MOS |-> FALSE, fault_charge_MOS |-> TRUE]

(***************************************************************************)
(* Claims about absent cell and temperature lists (SpecAscii)              *)
(***************************************************************************)
\* an analog decode of a well-formed one-pack response that declares no
\* cells or no temperature sensors, asked (TDTBMS232) for the pack it holds
ZeroCountDecoded ==
    /\ ascii_call.op \in AnalogOps
    /\ ascii_origin.kind = "valid"
    /\ Len(ascii_origin.packs) = 1
    /\ ascii_origin.packs[1].cells = <<>> \/ ascii_origin.packs[1].temps = <<>>
    /\ ascii_call.op = "tdt_parse_analog_data" => ascii_call.pack_number = Some(1)

\* C24 as stated: a response declaring zero cells or zero temperature
\* sensors is decoded without an error by the analog decode of PACEBMS and
\* TDTBMS232, and the pack record has as many cell voltages and temperatures
\* as the response, none where it declares zero.
C24_ZeroCountsDecoded ==
    ZeroCountDecoded =>
        /\ ascii_call.ret.ok
        /\ Len(ascii_call.ret.packs) = 1
        /\ Len(ascii_call.ret.packs[1].cell_voltages) = Len(ascii_origin.packs[1].cells)
        /\ Len(ascii_call.ret.packs[1].temperatures) = Len(ascii_origin.packs[1].temps)

\* the part of C24 that holds: PACEBMS decodes empty lists, and TDTBMS232 an
\* empty temperature list
C24_ZeroCountsDecodedButTdtCells ==
    (ZeroCountDecoded /\ ~(ascii_call.op = "tdt_parse_analog_data"
                           /\ ascii_origin.packs[1].cells = <<>>)) =>
        /\ ascii_call.ret.ok
        /\ Len(ascii_call.ret.packs[1].cell_voltages) = Len(ascii_origin.packs[1].cells)
        /\ Len(ascii_call.ret.packs[1].temperatures) = Len(ascii_origin.packs[1].temps)

\* TDTBMS232.parse_analog_data raises ValueError for a response without cells
C24_TdtZeroCellsRaises ==
    /\ ZeroCountDecoded
    /\ ascii_call.op = "tdt_parse_analog_data"
    /\ ascii_origin.packs[1].cells = <<>>
    /\ ~ascii_call.ret.ok
    /\ ascii_call.ret.error = "ValueError"

(***************************************************************************)
(* Claims about requests for unknown names (SpecTransport)                 *)
(***************************************************************************)
\* the last call asked for a register that REGISTER_ADDRESSES does not hold
\* or for a command that the command table does not hold
UnknownNameCall ==
    /\ io_call.n > 0
    /\ \/ io_call.fn = "read_register_data" /\ io_call.arg[1] \notin RequestNames
       \/ /\ io_call.fn \in {PaceGetter(c) : c \in PaceCommands}
          /\ \E c \in PaceCommands \ KnownCommands("PACEBMS") : io_call.fn = PaceGetter(c)

\* C25: a call of read_register_data with a name absent from
\* REGISTER_ADDRESSES, or of a get_* whose command is absent from the command
\* table, returns None at once: the step of the call adds no send and no
\* receive to what reached the transport and leaves the slave address, the
\* two energy totals and the stored timestamp as they were.
C25_UnknownNameFailsBeforeTransport ==
    [][(io_call'.n # io_call.n /\ UnknownNameCall') =>
          /\ io_call'.ret = None
          /\ io_call'.pc = "idle"
          /\ UNCHANGED <<transport_log, default_slave_address, address_detected,
                         total_energy_charged, total_energy_discharged, last_energy_time>>]_vars

\* an unknown register asked for after a read that was sent and answered
C25_Witness ==
    /\ UnknownNameCall
    /\ io_call = IoCall(2, "read_register_data", Some("NoSuchRegister"), "idle", None)
    /\ transport_log = <<SendEvent(1, TRUE), ReceiveEvent(1)>>

(***************************************************************************)
(* Claims about the Modbus CRC (SpecCrc)                                   *)
(***************************************************************************)
CrcCalculated == codec_call.op = "calculate_crc16_modbus"

\* C26: calculate_crc16_modbus returns a value of 16 bits, 0xB220 for the
\* bytes 01 03 12 02 00 01; the CRC of data followed by its own CRC, low
\* byte first, is 0, as for every CRC of seed 0xFFFF and reflected polynomial
\* 0xA001 without final inversion; inverting one bit of the data changes the
\* CRC, and the frame data + CRC does not validate after one bit of it, in
\* the data or in the CRC bytes, was inverted (parse_register_response
\* answers with its CRC error when the frame is long enough to be examined).
C26_CrcDetectsSingleBitFlip ==
    CrcCalculated =>
        LET data == codec_call.data
            bit == codec_call.pack_number[1]
            crc == codec_call.ret.request[1]
            crc_of_frame == codec_call.ret.request[2]
            crc_of_flipped == codec_call.ret.request[3]
        IN /\ crc \in 0..65535
           /\ data = CrcReference => crc = 45600
           /\ crc_of_frame = 0
           /\ bit < 8 * Len(data) => crc_of_flipped # crc
           /\ bit >= 8 * Len(data) => crc_of_flipped = crc
           /\ ~codec_call.ret.ok
           /\ Len(data) + 2 >= MinResponseLen => codec_call.ret.error = "CRC check failed"

\* the highest bit of the last byte of the worked example is inverted
C26_Witness ==
    /\ CrcCalculated
    /\ codec_call.data = CrcReference
    /\ codec_call.pack_number = Some(47)
    /\ codec_call.ret.request[1] = 45600
    /\ codec_call.ret.request[3] # 45600
    /\ codec_call.ret.error = "CRC check failed"

(***************************************************************************)
(* Claims about the names of the published packs (SpecTransport)           *)
(***************************************************************************)
\* a cycle of TDTBMS232 ended and published its packs
PacksPublished == publish_cycle.state = "done" /\ publish_cycle.result.error = ""

\* C27 as stated: what a cycle publishes under pack_<NN>_ is the record
\* decoded for the pack at place NN of pack_list, whichever attempts failed,
\* and every entry of a cell or temperature list is published with its
\* 1-based index in the decoded list.
C27_PackNameIsListPosition ==
    PacksPublished =>
        \A i \in 1..Len(publish_cycle.result.packs) :
            LET p == publish_cycle.result.packs[i]
            IN /\ p.pack_number = publish_cycle.pack_list[p.pack_i]
               /\ \A e \in p.entries :
                     /\ e.index \in 1..Len(p.telemetry[e.key])
                     /\ e.value = p.telemetry[e.key][e.index]

\* the part of C27 that holds: pack_<NN>_ is the NN-th collected record, and
\* the entries of its lists carry their 1-based index
C27_PackNameIsCollectedPosition ==
    PacksPublished =>
        /\ Len(publish_cycle.result.packs) = Len(publish_cycle.collected)
        /\ \A i \in 1..Len(publish_cycle.result.packs) :
              LET p == publish_cycle.result.packs[i]
              IN /\ p.pack_i = i
                 /\ p.pack_number = publish_cycle.collected[i]
                 /\ \A e \in p.entries :
                       /\ e.index \in 1..Len(p.telemetry[e.key])
                       /\ e.value = p.telemetry[e.key][e.index]

\* pack 1 failed three times and pack 2 answered: the record of pack 2 is
\* published as pack_01
C27_SecondPackPublishedAsFirst ==
    /\ PacksPublished
    /\ publish_cycle.pack_list = <<1, 2>>
    /\ publish_cycle.collected = <<2>>
    /\ Len(publish_cycle.result.packs) = 1
    /\ publish_cycle.result.packs[1].pack_i = 1
    /\ publish_cycle.result.packs[1].pack_number = 2

(***************************************************************************)
(* Claims about the accumulator among the other operations                 *)
(* (SpecAccumulator)                                                       *)
(***************************************************************************)
TotalsNotNegative == total_energy_charged >= 0 /\ total_energy_discharged >= 0

\* C28: both energy totals are at least 0 in every reachable state; a call
\* of calculate_cumulative_energy, whatever its power and its time (the
\* clock may stand still or step back), lowers neither total; a step that
\* lowers a total is a reset_cumulative_energy, which clears both; and
\* read_register_data, get_warning_data, set_slave_address and
\* auto_detect_slave_address leave the totals and the stored timestamp as
\* they were.
C28_TotalsGrowUntilReset ==
    /\ []TotalsNotNegative
    /\ [][/\ n_calls' # n_calls =>
                /\ total_energy_charged' >= total_energy_charged
                /\ total_energy_discharged' >= total_energy_discharged
          /\ (total_energy_charged' < total_energy_charged
                \/ total_energy_discharged' < total_energy_discharged) =>
                /\ energy_call'.op = "reset"
                /\ total_energy_charged' = 0 /\ total_energy_discharged' = 0
                /\ last_energy_time' = None
          /\ (poll_call' # poll_call \/ modbus_call' # modbus_call) =>
                UNCHANGED <<total_energy_charged, total_energy_discharged,
                            last_energy_time>>]_vars

\* energy was charged, the clock then stepped back in the middle of a
\* discharge, and the slave address was detected afterwards
C28_Witness ==
    /\ energy_call.op = "calc"
    /\ energy_call.power = Some(-1000)
    /\ energy_call.prev_time # None
    /\ energy_call.now[1] < energy_call.prev_time[1]
    /\ total_energy_charged > 0
    /\ total_energy_discharged = 0
    /\ poll_call.op = "auto_detect_slave_address"
    /\ default_slave_address = 1


\* the bytes the socket has handed over since the call started
TcpReceived ==
    SubSeq(tcp_receive.stream, 1, Len(tcp_receive.stream) - Len(tcp_receive.pending))

TcpReturnedAsStated ==
    LET received == TcpReceived
        expected == 3 + received[3] + 2
    IN tcp_receive.ret =
          IF Len(received) >= 3 /\ Len(received) >= expected
          THEN Some(SubSeq(received, 1, expected))
          ELSE IF received = <<>> THEN None ELSE Some(received)

TcpReceiveBounded ==
    /\ tcp_receive.attempt <= max_attempts
    /\ tcp_receive.recvs <= max_attempts
    /\ tcp_receive.pc = "returned" => TcpReturnedAsStated

\* C29: _receive_tcp_modbus_response makes at most 5 recv attempts and then
\* returns, whatever the socket does on each of them (bytes, b'', a timeout or
\* another error): the first 3 + byteCount + 2 bytes once that many have
\* arrived, otherwise the bytes that did arrive, or None when none did.
C29_TcpReceiveTerminates ==
    /\ []TcpReceiveBounded
    /\ (tcp_receive.pc = "loop") ~> (tcp_receive.pc = "returned")

\* a call that saw every kind of recv outcome and returned a complete
\* response, leaving behind a byte that arrived after it
C29_Witness ==
    /\ tcp_receive.pc = "returned"
    /\ tcp_receive.seen = RecvOutcomes
    /\ tcp_receive.ret # None
    /\ Len(tcp_receive.ret[1]) < Len(TcpReceived)


\* the acquisition loop is left with data, and publishing follows
AcquiredBeforePublishing ==
    /\ acquire.calls <= MaxAcquireCalls
    /\ acquire.pc \in {"publish", "returned"} => acquire.data # None /\ acquire.calls >= 1
    /\ acquire.pc = "returned" => acquire.ret \in {"published", "no_packs"}

\* C30: publish_analog_data_mqtt and publish_warning_data_mqtt of JKBMS485
\* return: their "while True" loop is left after finitely many get_analog_data /
\* get_warning_data calls, whatever the transport does, a transport whose every
\* send fails or whose receive never returns data included.
C30_AcquisitionLoopTerminates ==
    /\ []AcquiredBeforePublishing
    /\ (acquire.pc = "acquire") ~> (acquire.pc = "returned")

\* publish_analog_data_mqtt has returned after a get_analog_data call in which
\* every request it sent failed
C30_Witness ==
    /\ acquire.pc = "returned"
    /\ acquire.fn = "publish_analog_data_mqtt"
    /\ poll_call.op = "get_analog_data"
    /\ poll_call.sent = RequestNames
    /\ poll_call.failed = poll_call.sent

====
